---- MODULE Spec2Model ----
(***************************************************************************)
(* A model of AviaConnectorServer (src/src/server/AviaConnectorServer.ts): *)
(* the single-peer connection manager, the envelope codec, the dispatch    *)
(* engine, the simulator status tracker and the outbound request API.      *)
(*                                                                         *)
(* JavaScript values are tagged records (field k is the tag).  A string is *)
(* a sequence of atoms: every punctuation character, digit, blank and      *)
(* quote is an atom of its own, and a maximal run of letters is one atom,  *)
(* so that JSON.parse and JSON.stringify are computed over the text and    *)
(* are not inverse by construction.  Numerals are integers without         *)
(* fraction or exponent, and string literals hold no escape sequence.      *)
(***************************************************************************)
EXTENDS Integers, Sequences, FiniteSets, TLC

VARIABLES
    client,           \* this.client: the attached peer, or NoPeer (undefined)
    simulatorStatus,  \* this.simulatorStatus
    sockets,          \* per peer handle: readyState and the close() call made on it
    wss,              \* the listening transport: BINDING, RUNNING, CLOSING, CLOSED
    pendingCloses,    \* close() promises not yet resolved
    uncaught,         \* an exception escaped an event listener (the process is gone)
    last,             \* the operation that ran last (its input, decoded envelope, outcome)
    effects,          \* what the last operation did, in order
    channel,          \* per peer: the frames it sent, those the transport still
                      \* holds, and those the message handler was given
    notifications     \* the connection and disconnect notifications fired so far

vars ==
    <<client, simulatorStatus, sockets, wss, pendingCloses, uncaught, last, effects, channel,
      notifications>>

(***************************************************************************)
(* Bounds of the model.                                                    *)
(***************************************************************************)
MaxPeers == 2
MaxCloses == 1
MaxFrames == 3

Peers == 1..MaxPeers
NoPeer == 0

(***************************************************************************)
(* JavaScript values.                                                      *)
(***************************************************************************)
Undefined == [k |-> "undefined"]
Null == [k |-> "null"]
Bool(b) == [k |-> "boolean", b |-> b]
Num(n) == [k |-> "number", n |-> n]
Str(s) == [k |-> "string", s |-> s]
Arr(items) == [k |-> "array", items |-> items]
\* props: a sequence of <<key, value>> pairs with distinct keys, in insertion order
Obj(props) == [k |-> "object", props |-> props]
\* an object that refers to itself: JSON.stringify throws on it
Circular == [k |-> "circular"]
Err(m) == [k |-> "Error", message |-> m]
Buf(bytes) == [k |-> "Buffer", bytes |-> bytes]
ArrayBuf(bytes) == [k |-> "ArrayBuffer", bytes |-> bytes]
Chunks(bufs) == [k |-> "chunks", bufs |-> bufs]

\* a one-atom string
W(a) == <<a>>
Quote == "\""
Blank == " "
DigitChars == <<"0", "1", "2", "3", "4", "5", "6", "7", "8", "9">>
IsDigit(a) == \E i \in 1..10 : DigitChars[i] = a
DigitOf(a) == (CHOOSE i \in 1..10 : DigitChars[i] = a) - 1

\* obj[key] for the property names the code reads (own properties of an
\* object literal; undefined on every other value)
RECURSIVE Lookup(_, _, _)
Lookup(props, key, i) ==
    IF i > Len(props) THEN Undefined
    ELSE IF props[i][1] = key THEN props[i][2]
    ELSE Lookup(props, key, i + 1)

Get(v, key) == IF v.k = "object" THEN Lookup(v.props, key, 1) ELSE Undefined

\* obj[key] = val: an existing key keeps its place
RECURSIVE SetProp(_, _, _)
SetProp(props, key, val) ==
    IF props = <<>> THEN << <<key, val>> >>
    ELSE IF Head(props)[1] = key THEN << <<key, val>> >> \o Tail(props)
    ELSE <<Head(props)>> \o SetProp(Tail(props), key, val)

\* !v
Falsy(v) ==
    \/ v.k \in {"undefined", "null"}
    \/ v.k = "boolean" /\ ~v.b
    \/ v.k = "number" /\ v.n = 0
    \/ v.k = "string" /\ v.s = <<>>

\* a || b in the place of a ?? b
CoalesceTruthy(a, b) == IF Falsy(a) THEN b ELSE a

\* a ?? b
Coalesce(a, b) == IF a.k \in {"undefined", "null"} THEN b ELSE a

(***************************************************************************)
(* JSON.stringify                                                          *)
(***************************************************************************)
RECURSIVE NatText(_)
NatText(n) ==
    IF n < 10 THEN <<DigitChars[n + 1]>>
    ELSE NatText(n \div 10) \o <<DigitChars[(n % 10) + 1]>>

NumText(n) == IF n < 0 THEN <<"-">> \o NatText(-n) ELSE NatText(n)

Quoted(s) == <<Quote>> \o s \o <<Quote>>

Text(t) == [kind |-> "text", text |-> t]
NoText == [kind |-> "undefined"]
Throws == [kind |-> "throw"]

RECURSIVE Stringify(_), StringifyProps(_, _, _), StringifyItems(_, _, _)

\* the members of an object: a member whose value has no JSON text is left out
StringifyProps(props, i, acc) ==
    IF i > Len(props) THEN Text(<<"{">> \o acc \o <<"}">>)
    ELSE LET r == Stringify(props[i][2]) IN
         IF r.kind = "throw" THEN Throws
         ELSE IF r.kind = "undefined" THEN StringifyProps(props, i + 1, acc)
         ELSE StringifyProps(props, i + 1,
                (IF acc = <<>> THEN <<>> ELSE acc \o <<",">>)
                    \o Quoted(props[i][1]) \o <<":">> \o r.text)

\* the elements of an array: an element that has no JSON text becomes null
StringifyItems(items, i, acc) ==
    IF i > Len(items) THEN Text(<<"[">> \o acc \o <<"]">>)
    ELSE LET r == Stringify(items[i]) IN
         IF r.kind = "throw" THEN Throws
         ELSE StringifyItems(items, i + 1,
                (IF acc = <<>> THEN <<>> ELSE acc \o <<",">>)
                    \o (IF r.kind = "undefined" THEN <<"null">> ELSE r.text))

Stringify(v) ==
    CASE v.k = "undefined" -> NoText
      [] v.k = "null" -> Text(<<"null">>)
      [] v.k = "boolean" -> Text(IF v.b THEN <<"true">> ELSE <<"false">>)
      [] v.k = "number" -> Text(NumText(v.n))
      [] v.k = "string" -> Text(Quoted(v.s))
      [] v.k = "array" -> StringifyItems(v.items, 1, <<>>)
      [] v.k = "object" -> StringifyProps(v.props, 1, <<>>)
      [] v.k = "circular" -> Throws

(***************************************************************************)
(* JSON.parse                                                              *)
(***************************************************************************)
Fail == [ok |-> FALSE]
Parsed(v, n) == [ok |-> TRUE, val |-> v, next |-> n]

RECURSIVE SkipWs(_, _)
SkipWs(t, i) == IF i <= Len(t) /\ t[i] = Blank THEN SkipWs(t, i + 1) ELSE i

RECURSIVE ClosingQuote(_, _)
ClosingQuote(t, i) ==
    IF i > Len(t) THEN 0
    ELSE IF t[i] = Quote THEN i
    ELSE ClosingQuote(t, i + 1)

\* t[i] is an opening quote
ParseString(t, i) ==
    LET j == ClosingQuote(t, i + 1) IN
    IF j = 0 THEN Fail ELSE Parsed(SubSeq(t, i + 1, j - 1), j + 1)

RECURSIVE DigitsEnd(_, _)
DigitsEnd(t, i) == IF i <= Len(t) /\ IsDigit(t[i]) THEN DigitsEnd(t, i + 1) ELSE i

RECURSIVE DigitsValue(_, _, _, _)
DigitsValue(t, i, j, acc) ==
    IF i >= j THEN acc ELSE DigitsValue(t, i + 1, j, acc * 10 + DigitOf(t[i]))

\* t[i] is "-" or a digit; a numeral has no leading zero
ParseNumber(t, i) ==
    LET neg == t[i] = "-"
        d == IF neg THEN i + 1 ELSE i
        e == DigitsEnd(t, d)
    IN  IF e = d THEN Fail
        ELSE IF t[d] = "0" /\ e > d + 1 THEN Fail
        ELSE LET n == DigitsValue(t, d, e, 0) IN
             Parsed(Num(IF neg THEN -n ELSE n), e)

RECURSIVE ParseValue(_, _), ParseMembers(_, _, _), ParseElements(_, _, _)

ParseMembers(t, i0, acc) ==
    LET i == SkipWs(t, i0) IN
    IF i > Len(t) \/ t[i] # Quote THEN Fail
    ELSE LET ks == ParseString(t, i) IN
         IF ~ks.ok THEN Fail
         ELSE LET c == SkipWs(t, ks.next) IN
              IF c > Len(t) \/ t[c] # ":" THEN Fail
              ELSE LET pv == ParseValue(t, c + 1) IN
                   IF ~pv.ok THEN Fail
                   ELSE LET acc2 == SetProp(acc, ks.val, pv.val)
                            d == SkipWs(t, pv.next)
                        IN  IF d > Len(t) THEN Fail
                            ELSE IF t[d] = "," THEN ParseMembers(t, d + 1, acc2)
                            ELSE IF t[d] = "}" THEN Parsed(Obj(acc2), d + 1)
                            ELSE Fail

ParseElements(t, i0, acc) ==
    LET pv == ParseValue(t, i0) IN
    IF ~pv.ok THEN Fail
    ELSE LET acc2 == Append(acc, pv.val)
             d == SkipWs(t, pv.next)
         IN  IF d > Len(t) THEN Fail
             ELSE IF t[d] = "," THEN ParseElements(t, d + 1, acc2)
             ELSE IF t[d] = "]" THEN Parsed(Arr(acc2), d + 1)
             ELSE Fail

ParseValue(t, i0) ==
    LET i == SkipWs(t, i0) IN
    IF i > Len(t) THEN Fail
    ELSE CASE t[i] = "{" ->
                LET j == SkipWs(t, i + 1) IN
                IF j <= Len(t) /\ t[j] = "}" THEN Parsed(Obj(<<>>), j + 1)
                ELSE ParseMembers(t, j, <<>>)
           [] t[i] = "[" ->
                LET j == SkipWs(t, i + 1) IN
                IF j <= Len(t) /\ t[j] = "]" THEN Parsed(Arr(<<>>), j + 1)
                ELSE ParseElements(t, j, <<>>)
           [] t[i] = Quote ->
                LET s == ParseString(t, i) IN
                IF s.ok THEN Parsed(Str(s.val), s.next) ELSE Fail
           [] t[i] = "true" -> Parsed(Bool(TRUE), i + 1)
           [] t[i] = "false" -> Parsed(Bool(FALSE), i + 1)
           [] t[i] = "null" -> Parsed(Null, i + 1)
           [] t[i] = "-" \/ IsDigit(t[i]) -> ParseNumber(t, i)
           [] OTHER -> Fail

\* JSON.parse(text): the value, or a SyntaxError (ok = FALSE)
JSONParse(text) ==
    LET r == ParseValue(text, 1) IN
    IF r.ok /\ SkipWs(text, r.next) = Len(text) + 1
    THEN [ok |-> TRUE, val |-> r.val]
    ELSE Fail

(***************************************************************************)
(* String(v), as the catch clauses and the Error constructor apply it.     *)
(***************************************************************************)
RECURSIVE JsString(_), JoinItems(_, _, _)

JoinItems(items, i, acc) ==
    IF i > Len(items) THEN acc
    ELSE JoinItems(items, i + 1,
            (IF i = 1 THEN <<>> ELSE acc \o <<",">>)
                \o (IF items[i].k \in {"undefined", "null"} THEN <<>> ELSE JsString(items[i])))

JsString(v) ==
    CASE v.k = "string" -> v.s
      [] v.k = "number" -> NumText(v.n)
      [] v.k = "boolean" -> IF v.b THEN <<"true">> ELSE <<"false">>
      [] v.k = "null" -> <<"null">>
      [] v.k = "undefined" -> <<"undefined">>
      [] v.k = "array" -> JoinItems(v.items, 1, <<>>)
      [] v.k = "Error" -> <<"Error", ":", Blank>> \o v.message
      [] OTHER -> <<"[", "object", Blank, "Object", "]">>

\* err instanceof Error ? err : new Error(String(err))
AsError(err) == IF err.k = "Error" THEN err ELSE Err(JsString(err))

(***************************************************************************)
(* parseMessage                                                            *)
(***************************************************************************)
\* a byte that is no valid UTF-8 decodes to the replacement character
InvalidByte == "0xFF"
ReplacementChar == "U+FFFD"

Utf8(bytes) ==
    [i \in 1..Len(bytes) |-> IF bytes[i] = InvalidByte THEN ReplacementChar ELSE bytes[i]]

RECURSIVE ConcatBufs(_)
ConcatBufs(bufs) ==
    IF bufs = <<>> THEN <<>> ELSE Head(bufs).bytes \o ConcatBufs(Tail(bufs))

TextOf(raw) ==
    CASE raw.k = "string" -> raw.s
      [] raw.k = "Buffer" -> Utf8(raw.bytes)
      [] raw.k = "ArrayBuffer" -> Utf8(raw.bytes)
      [] raw.k = "chunks" -> Utf8(ConcatBufs(raw.bufs))
      [] OTHER -> JsString(raw)

UnknownEnvelope(d) == Obj(<< <<W("type"), Str(W("unknown"))>>, <<W("data"), d>> >>)

\* the decoder without the truthiness guard: typeof obj.type throws on null,
\* and the catch clause answers with the text
parseMessageNoNullGuard(raw) ==
    LET text == TextOf(raw)
        p == JSONParse(text)
    IN  IF ~p.ok \/ p.val.k = "null" THEN UnknownEnvelope(Str(text))
        ELSE IF Get(p.val, W("type")).k = "string" THEN p.val
        ELSE UnknownEnvelope(p.val)

\* the decoder wrapping every parsed value
parseMessageAlwaysWrap(raw) ==
    LET text == TextOf(raw)
        p == JSONParse(text)
    IN  IF ~p.ok THEN UnknownEnvelope(Str(text)) ELSE UnknownEnvelope(p.val)

\* the decoder reporting a parse failure as an error envelope
parseMessageErrorEnvelope(raw) ==
    LET text == TextOf(raw)
        p == JSONParse(text)
    IN  IF ~p.ok THEN Obj(<< <<W("type"), Str(W("error"))>>, <<W("data"), Str(text)>> >>)
        ELSE IF ~Falsy(p.val) /\ Get(p.val, W("type")).k = "string" THEN p.val
        ELSE UnknownEnvelope(p.val)

parseMessage(raw) ==
    LET text == TextOf(raw)
        p == JSONParse(text)
    IN  IF ~p.ok THEN UnknownEnvelope(Str(text))
        ELSE IF ~Falsy(p.val) /\ Get(p.val, W("type")).k = "string" THEN p.val
        ELSE UnknownEnvelope(p.val)

(***************************************************************************)
(* handleMessage                                                           *)
(***************************************************************************)
\* how a call ends: it returns val, or throws val
Returned(v) == [k |-> "return", val |-> v]
Thrown(v) == [k |-> "throw", val |-> v]
Normal == Returned(Undefined)

\* an invocation of a consumer callback (an absent callback is one that returns)
Call(name, arg) == [e |-> name, arg |-> arg]

\* an initial status that has the simulator connected
InitialStatusConnected ==
    [last_error |-> Num(0), simulator_connected |-> Bool(TRUE),
     simulator_loaded |-> Bool(FALSE), simulator_name |-> Undefined]

InitialStatus ==
    [last_error |-> Num(0), simulator_connected |-> Bool(FALSE),
     simulator_loaded |-> Bool(FALSE), simulator_name |-> Undefined]

\* a || b
OrElse(a, b) == IF Falsy(a) THEN b ELSE a

\* the merge that replaces the record: a field the update leaves out falls
\* back to its initial value
MergeStatusReplace(status, data) ==
    [last_error |-> Coalesce(Get(data, W("last_error")), InitialStatus.last_error),
     simulator_connected |->
        Coalesce(Get(data, W("simulator_connected")), InitialStatus.simulator_connected),
     simulator_loaded |->
        Coalesce(Get(data, W("simulator_loaded")), InitialStatus.simulator_loaded),
     simulator_name |-> Coalesce(Get(data, W("simulator_name")), InitialStatus.simulator_name)]

\* the merge written with || in place of ??
MergeStatusTruthy(status, data) ==
    [last_error |-> OrElse(Get(data, W("last_error")), status.last_error),
     simulator_connected |->
        OrElse(Get(data, W("simulator_connected")), status.simulator_connected),
     simulator_loaded |-> OrElse(Get(data, W("simulator_loaded")), status.simulator_loaded),
     simulator_name |-> OrElse(Get(data, W("simulator_name")), status.simulator_name)]

\* the merge that takes an update only if it gives all four fields
MergeStatusAllOrNothing(status, data) ==
    IF \A f \in {"last_error", "simulator_connected", "simulator_loaded", "simulator_name"} :
            Get(data, W(f)).k \notin {"undefined", "null"}
    THEN [last_error |-> Get(data, W("last_error")),
          simulator_connected |-> Get(data, W("simulator_connected")),
          simulator_loaded |-> Get(data, W("simulator_loaded")),
          simulator_name |-> Get(data, W("simulator_name"))]
    ELSE status

\* the Status branch's merge
MergeStatus(status, data) ==
    [last_error |-> Coalesce(Get(data, W("last_error")), status.last_error),
     simulator_connected |->
        Coalesce(Get(data, W("simulator_connected")), status.simulator_connected),
     simulator_loaded |-> Coalesce(Get(data, W("simulator_loaded")), status.simulator_loaded),
     simulator_name |-> Coalesce(Get(data, W("simulator_name")), status.simulator_name)]

\* { ...this.simulatorStatus }
Snapshot(status) ==
    Obj(<< <<W("last_error"), status.last_error>>,
           <<W("simulator_connected"), status.simulator_connected>>,
           <<W("simulator_loaded"), status.simulator_loaded>>,
           <<W("simulator_name"), status.simulator_name>> >>)

UnknownError == Str(<<"Unknown", Blank, "error">>)

\* the message taken from data alone, data.message never read
ErrorMessageDataOnly(data) == IF data.k = "string" THEN data ELSE UnknownError

ErrorMessage(data) ==
    IF data.k = "string" THEN data
    ELSE Coalesce(Get(data, W("message")), UnknownError)

Handled(status, calls, out) == [status |-> status, calls |-> calls, out |-> out]

\* the lower-case spelling of the type names
LowerCase(a) ==
    CASE a \in {"AircraftData", "aircraftdata", "AIRCRAFTDATA"} -> "aircraftdata"
      [] a \in {"Status", "status", "STATUS"} -> "status"
      [] a \in {"Pong", "pong", "PONG"} -> "pong"
      [] a \in {"Error", "error", "ERROR"} -> "error"
      [] OTHER -> a

\* type.toLowerCase()
ToLowerCase(v) == IF v.k = "string" THEN Str([i \in 1..Len(v.s) |-> LowerCase(v.s[i])]) ELSE v

\* the dispatch that reports a type it does not know to the error callback
handleMessageReportUnknown(message, status, cb) ==
    LET type == Get(message, W("type"))
        data == Get(message, W("data"))
    IN  IF type = Str(W("AircraftData")) THEN
            IF Falsy(data) THEN Handled(status, <<>>, Normal)
            ELSE Handled(status,
                    <<Call("onAircraftData", Coalesce(Get(data, W("Aircraft")), data))>>, cb)
        ELSE IF type = Str(W("Status")) THEN
            IF Falsy(data) THEN Handled(status, <<>>, Normal)
            ELSE LET merged == MergeStatus(status, data) IN
                 Handled(merged, <<Call("onSimulatorStatus", Snapshot(merged))>>, cb)
        ELSE IF type = Str(W("pong")) THEN
            IF Falsy(data) THEN Handled(status, <<>>, Normal)
            ELSE Handled(status, <<Call("onPong", data)>>, cb)
        ELSE IF type = Str(W("Error")) \/ type = Str(W("error")) THEN
            Handled(status, <<Call("onError", Err(JsString(ErrorMessage(data))))>>, cb)
        ELSE Handled(status,
                <<Call("onError", Err(<<"Unknown", Blank, "message", Blank, "type">>))>>, cb)

\* the dispatch that compares the type without regard to letter case
handleMessageAnyCase(message, status, cb) ==
    LET type == ToLowerCase(Get(message, W("type")))
        data == Get(message, W("data"))
    IN  IF type = Str(W("aircraftdata")) THEN
            IF Falsy(data) THEN Handled(status, <<>>, Normal)
            ELSE Handled(status,
                    <<Call("onAircraftData", Coalesce(Get(data, W("Aircraft")), data))>>, cb)
        ELSE IF type = Str(W("status")) THEN
            IF Falsy(data) THEN Handled(status, <<>>, Normal)
            ELSE LET merged == MergeStatus(status, data) IN
                 Handled(merged, <<Call("onSimulatorStatus", Snapshot(merged))>>, cb)
        ELSE IF type = Str(W("pong")) THEN
            IF Falsy(data) THEN Handled(status, <<>>, Normal)
            ELSE Handled(status, <<Call("onPong", data)>>, cb)
        ELSE IF type = Str(W("error")) THEN
            Handled(status, <<Call("onError", Err(JsString(ErrorMessage(data))))>>, cb)
        ELSE Handled(status, <<>>, Normal)

\* cb: how the consumer callback ends if one is invoked
handleMessage(message, status, cb) ==
    LET type == Get(message, W("type"))
        data == Get(message, W("data"))
    IN  IF type = Str(W("AircraftData")) THEN
            IF Falsy(data) THEN Handled(status, <<>>, Normal)
            ELSE Handled(status,
                    <<Call("onAircraftData", Coalesce(Get(data, W("Aircraft")), data))>>, cb)
        ELSE IF type = Str(W("Status")) THEN
            IF Falsy(data) THEN Handled(status, <<>>, Normal)
            ELSE LET merged == MergeStatus(status, data) IN
                 Handled(merged, <<Call("onSimulatorStatus", Snapshot(merged))>>, cb)
        ELSE IF type = Str(W("pong")) THEN
            IF Falsy(data) THEN Handled(status, <<>>, Normal)
            ELSE Handled(status, <<Call("onPong", data)>>, cb)
        ELSE IF type = Str(W("Error")) \/ type = Str(W("error")) THEN
            Handled(status, <<Call("onError", Err(JsString(ErrorMessage(data))))>>, cb)
        ELSE Handled(status, <<>>, Normal)

(***************************************************************************)
(* The inputs the model draws.                                             *)
(***************************************************************************)
O1(key, val) == Obj(<< <<W(key), val>> >>)
Envelope(type, data) == Obj(<< <<W("type"), Str(W(type))>>, <<W("data"), data>> >>)
BareEnvelope(type) == O1("type", Str(W(type)))

\* a text frame carrying the JSON text of v
FrameOf(v) == Str(Stringify(v).text)

NotJson == <<"not", Blank, "json">>
AltitudeNested == Envelope("AircraftData", O1("Aircraft", O1("PLANE_ALTITUDE", Num(2200))))

\* the frames the peers send in the lifecycle specification
InboundFrames ==
    { Str(NotJson),
      Buf(Stringify(AltitudeNested).text),
      FrameOf(Envelope("Status", O1("simulator_connected", Bool(TRUE)))),
      FrameOf(Envelope("pong", O1("payload", O1("simulator", Str(W("MSFS")))))),
      FrameOf(Envelope("Error", Str(W("bad")))) }

\* those of them whose text is no JSON
MalformedInbound == {raw \in InboundFrames : ~JSONParse(TextOf(raw)).ok}

O2(key1, val1, key2, val2) == Obj(<< <<W(key1), val1>>, <<W(key2), val2>> >>)

\* data values that are falsy: `!data` holds of them, and of an absent data
FalsyData == {Null, Num(0), Bool(FALSE), Str(<<>>)}

\* data values that are truthy and carry none of the members the code reads
PlainData == {Num(5), Arr(<<>>), Obj(<<>>)}

\* the data of the AircraftData envelopes
AircraftPayloads ==
    { O1("Aircraft", O1("PLANE_ALTITUDE", Num(2200))),
      O1("PLANE_ALTITUDE", Num(2200)),
      O2("Aircraft", Null, "PLANE_ALTITUDE", Num(2200)),
      O2("Aircraft", Num(0), "PLANE_ALTITUDE", Num(2200)) }

\* the data of the Status envelopes: session fields, one or several, with
\* values of the declared types and of others, and the taxonomy style
StatusUpdates ==
    { O1("simulator_connected", Bool(TRUE)),
      O1("simulator_connected", Bool(FALSE)),
      O1("simulator_connected", Null),
      O1("simulator_connected", Str(W("yes"))),
      O1("simulator_connected", Num(1)),
      O1("simulator_loaded", Bool(TRUE)),
      O1("last_error", Num(5)),
      O1("last_error", Num(0)),
      O1("simulator_name", Str(W("MSFS"))),
      O1("simulator_name", Str(<<>>)),
      O1("simulator_name", Null),
      O1("simulator_name", O1("title", Str(W("MSFS")))),
      O2("simulator_loaded", Bool(FALSE), "simulator_name", Str(W("XPlane"))),
      O2("code", Str(W("600")), "message", Str(W("MSFS"))),
      O2("code", Str(W("601")), "message", Str(W("MSFS"))) }

\* the data of the Error and error envelopes
ErrorPayloads ==
    { Str(W("bad")),
      O1("message", Str(W("failed"))),
      O1("message", Num(42)),
      O1("message", Null),
      O1("code", Num(7)) }

\* type names that are none of the five the dispatch knows
OtherTypes ==
    { "status", "STATUS", "aircraftdata", "Pong", "PONG", "ERROR",
      "unknown", "ping", "request", "custom" }

\* an envelope with and without a data member
Envelopes(type, payloads) == {BareEnvelope(type)} \cup {Envelope(type, d) : d \in payloads}

\* the envelopes the peer sends in the dispatch specification
DispatchEnvelopes ==
    Envelopes("AircraftData", AircraftPayloads \cup FalsyData \cup PlainData)
        \cup Envelopes("Status", {O1("simulator_connected", Bool(TRUE))} \cup FalsyData \cup PlainData)
        \cup Envelopes("pong", {O1("payload", O1("simulator", Str(W("MSFS"))))}
                                \cup FalsyData \cup PlainData)
        \cup Envelopes("Error", ErrorPayloads \cup FalsyData \cup PlainData)
        \cup Envelopes("error", {Str(W("bad")), O1("message", Str(W("failed")))})
        \cup {Envelope(t, O1("simulator_connected", Bool(FALSE))) : t \in OtherTypes}
        \cup {BareEnvelope("custom"), Envelope("ERROR", Str(W("bad"))),
              O1("type", Str(<<>>)), O1("data", O1("simulator_connected", Bool(FALSE)))}

\* the frames of the dispatch specification: the envelopes' texts, and
\* texts that hold no envelope
DispatchFrames ==
    {FrameOf(e) : e \in DispatchEnvelopes}
        \cup {Str(NotJson), FrameOf(Null), FrameOf(Arr(<<BareEnvelope("Status")>>))}

\* the frames of the status specification
StatusFrames == {FrameOf(e) : e \in Envelopes("Status", StatusUpdates \cup {Null, Num(0), Obj(<<>>)})}

\* parseMessage over the frames the model delivers
Decoded == [raw \in InboundFrames \cup DispatchFrames \cup StatusFrames |-> parseMessage(raw)]

\* how a consumer callback may end: it returns, or throws an Error or a string
CallbackOutcomes == {Normal, Thrown(Err(W("boom"))), Thrown(Str(W("oops")))}

\* how a callback may end where the code does not look at what it threw
ListenerOutcomes == {Normal, Thrown(Err(W("boom")))}

\* what the transport reports or throws
TransportErrors == {Err(W("ECONNRESET"))}

\* the arguments send() is given
Payloads ==
    { Str(W("hello")),
      O1("type", Str(W("custom"))),
      Circular }

(***************************************************************************)
(* The connection manager.                                                 *)
(***************************************************************************)
NoCall == [code |-> 0, reason |-> ""]
NewSocket == [readyState |-> "NEW", closeCall |-> NoCall]

\* ws.close(code, reason) on peer p: an open socket starts its closing handshake
WsClosed(socks, p, code, reason) ==
    [socks EXCEPT ![p] =
        [readyState |-> IF @.readyState = "OPEN" THEN "CLOSING" ELSE @.readyState,
         closeCall |-> [code |-> code, reason |-> reason]]]

WsCloseEffect(p, code, reason) == [e |-> "ws.close", peer |-> p, code |-> code, reason |-> reason]
AssignClient(p) == [e |-> "client=", peer |-> p]
WsSendEffect(p, frame) == [e |-> "ws.send", peer |-> p, frame |-> frame]
WssCloseEffect == [e |-> "wss.close"]
ResolveEffect == [e |-> "resolve"]

\* the operation that ran: its name, the peer it concerns, its argument, the
\* envelope it decoded, how the transport's send and the consumer callback it
\* reached ended, and how the operation itself ended
Op(name, p, arg, msg, transport, cb, ret) ==
    [op |-> name, peer |-> p, arg |-> arg, msg |-> msg,
     transport |-> transport, cb |-> cb, ret |-> ret]

\* `ws://${host}:${port}${path ?? ""}` with the default host and no path
ListenUrl ==
    LET host == <<"0", ".", "0", ".", "0", ".", "0">>
        port == 8765
    IN  <<"ws", ":", "/", "/">> \o host \o <<":">> \o NumText(port)

\* a connection on which nothing was sent
\* a notification callback fired for the handle p
Notified(name, p) == [e |-> name, peer |-> p]

EmptyChannel == [sent |-> <<>>, inflight |-> <<>>, log |-> <<>>]

Init ==
    /\ channel = [p \in Peers |-> EmptyChannel]
    /\ notifications = <<>>
    /\ client = NoPeer
    /\ simulatorStatus = InitialStatus
    /\ sockets = [p \in Peers |-> NewSocket]
    /\ wss = "BINDING"
    /\ pendingCloses = 0
    /\ uncaught = FALSE
    /\ last = Op("new", NoPeer, Undefined, Undefined, Normal, Normal, Normal)
    /\ effects = <<>>

\* wss.on("listening")
OnListening(cb) ==
    /\ ~uncaught
    /\ wss = "BINDING"
    /\ wss' = "RUNNING"
    /\ effects' = <<Call("onListening", Str(ListenUrl))>>
    /\ uncaught' = (cb.k = "throw")
    /\ last' = Op("listening", NoPeer, Undefined, Undefined, Normal, cb, cb)
    /\ UNCHANGED <<client, simulatorStatus, sockets, pendingCloses, channel, notifications>>

\* the connection handler adopting the handle before it closes this.client
OnConnectionAdoptFirst(p, cb) ==
    /\ ~uncaught
    /\ wss # "BINDING"
    /\ sockets[p].readyState = "NEW"
    /\ \A q \in Peers : q < p => sockets[q].readyState # "NEW"
    /\ sockets' =
        IF client # NoPeer
        THEN WsClosed([sockets EXCEPT ![p].readyState = "OPEN"], p, 1000, "New client connected")
        ELSE [sockets EXCEPT ![p].readyState = "OPEN"]
    /\ client' = p
    /\ effects' =
        <<AssignClient(p)>>
            \o (IF client # NoPeer
                THEN <<WsCloseEffect(p, 1000, "New client connected")>> ELSE <<>>)
            \o <<Call("onConnection", Undefined)>>
    /\ uncaught' = (cb.k = "throw")
    /\ last' = Op("connection", p, Undefined, Undefined, Normal, cb, cb)
    /\ notifications' = Append(notifications, Notified("onConnection", p))
    /\ UNCHANGED <<simulatorStatus, wss, pendingCloses, channel>>

\* the connection handler that leaves the previous peer open
OnConnectionNoEvict(p, cb) ==
    /\ ~uncaught
    /\ wss # "BINDING"
    /\ sockets[p].readyState = "NEW"
    /\ \A q \in Peers : q < p => sockets[q].readyState # "NEW"
    /\ sockets' = [sockets EXCEPT ![p].readyState = "OPEN"]
    /\ client' = p
    /\ effects' = <<AssignClient(p), Call("onConnection", Undefined)>>
    /\ uncaught' = (cb.k = "throw")
    /\ last' = Op("connection", p, Undefined, Undefined, Normal, cb, cb)
    /\ notifications' = Append(notifications, Notified("onConnection", p))
    /\ UNCHANGED <<simulatorStatus, wss, pendingCloses, channel>>

\* the connection handler that notifies only when no peer was attached
OnConnectionQuietSupersede(p, cb) ==
    /\ ~uncaught
    /\ wss # "BINDING"
    /\ sockets[p].readyState = "NEW"
    /\ \A q \in Peers : q < p => sockets[q].readyState # "NEW"
    /\ client # NoPeer => cb = Normal
    /\ sockets' =
        [(IF client # NoPeer THEN WsClosed(sockets, client, 1000, "New client connected")
          ELSE sockets) EXCEPT ![p].readyState = "OPEN"]
    /\ client' = p
    /\ effects' =
        IF client # NoPeer
        THEN <<WsCloseEffect(client, 1000, "New client connected"), AssignClient(p)>>
        ELSE <<AssignClient(p), Call("onConnection", Undefined)>>
    /\ uncaught' = (cb.k = "throw")
    /\ last' = Op("connection", p, Undefined, Undefined, Normal, cb, cb)
    /\ notifications' =
        IF client # NoPeer THEN notifications
        ELSE Append(notifications, Notified("onConnection", p))
    /\ UNCHANGED <<simulatorStatus, wss, pendingCloses, channel>>

\* wss.on("connection"): p is a handle that was never seen before
OnConnection(p, cb) ==
    /\ ~uncaught
    /\ wss # "BINDING"
    /\ sockets[p].readyState = "NEW"
    /\ \A q \in Peers : q < p => sockets[q].readyState # "NEW"
    /\ sockets' =
        [(IF client # NoPeer THEN WsClosed(sockets, client, 1000, "New client connected")
          ELSE sockets) EXCEPT ![p].readyState = "OPEN"]
    /\ client' = p
    /\ effects' =
        (IF client # NoPeer
         THEN <<WsCloseEffect(client, 1000, "New client connected")>> ELSE <<>>)
            \o <<AssignClient(p), Call("onConnection", Undefined)>>
    /\ uncaught' = (cb.k = "throw")
    /\ last' = Op("connection", p, Undefined, Undefined, Normal, cb, cb)
    /\ notifications' = Append(notifications, Notified("onConnection", p))
    /\ UNCHANGED <<simulatorStatus, wss, pendingCloses, channel>>

\* the message handler without its try and catch
OnMessageNoCatch(p, raw, cb1, cb2) ==
    /\ ~uncaught
    /\ sockets[p].readyState \in {"OPEN", "CLOSING"}
    /\ LET message == Decoded[raw]
           h == handleMessage(message, simulatorStatus, cb1)
       IN  /\ h.calls = <<>> => cb1 = Normal
           /\ cb2 = Normal
           /\ simulatorStatus' = h.status
           /\ effects' = h.calls
           /\ uncaught' = (h.out.k = "throw")
           /\ last' = Op("message", p, raw, message, Normal, cb1, h.out)
    /\ UNCHANGED <<client, sockets, wss, pendingCloses, channel, notifications>>

\* the listener of ws.on("message") run on raw: cb1 ends the dispatched
\* callback, cb2 the error callback of the catch
MessageHandler(p, raw, cb1, cb2) ==
    /\ ~uncaught
    /\ sockets[p].readyState \in {"OPEN", "CLOSING"}
    /\ LET message == Decoded[raw]
           h == handleMessage(message, simulatorStatus, cb1)
           caught == h.out.k = "throw"
           out == IF caught THEN cb2 ELSE Normal
       IN  /\ h.calls = <<>> => cb1 = Normal
           /\ ~caught => cb2 = Normal
           /\ simulatorStatus' = h.status
           /\ effects' =
                h.calls \o (IF caught THEN <<Call("onError", AsError(h.out.val))>> ELSE <<>>)
           /\ uncaught' = (out.k = "throw")
           /\ last' = Op("message", p, raw, message, Normal, IF caught THEN cb2 ELSE cb1, out)
    /\ UNCHANGED <<client, sockets, wss, pendingCloses, notifications>>

\* a message event for raw, the frame's way through the transport left out
OnMessage(p, raw, cb1, cb2) ==
    /\ MessageHandler(p, raw, cb1, cb2)
    /\ UNCHANGED channel

\* the peer writes a frame to its connection: the transport holds it until
\* it emits the message event for it
PeerSends(p, raw) ==
    /\ ~uncaught
    /\ sockets[p].readyState = "OPEN"
    /\ Len(channel[p].sent) < MaxFrames
    /\ channel' = [channel EXCEPT ![p].sent = Append(@, raw), ![p].inflight = Append(@, raw)]
    /\ effects' = <<>>
    /\ last' = Op("peerSend", p, raw, Undefined, Normal, Normal, Normal)
    /\ UNCHANGED <<client, simulatorStatus, sockets, wss, pendingCloses, uncaught, notifications>>

\* a handler that sets a frame aside while a newer one waits and takes the
\* newest first
DeliverNewestFirst(p, cb1, cb2) ==
    /\ channel[p].inflight # <<>>
    /\ LET n == Len(channel[p].inflight) IN
        /\ MessageHandler(p, channel[p].inflight[n], cb1, cb2)
        /\ channel' =
            [channel EXCEPT
                ![p].inflight = SubSeq(@, 1, n - 1),
                ![p].log = Append(@, [frame |-> channel[p].inflight[n], effects |-> effects',
                                      status |-> simulatorStatus'])]

\* the transport emits the message event for the oldest frame it holds and
\* the message handler runs on it, to its end
Deliver(p, cb1, cb2) ==
    /\ channel[p].inflight # <<>>
    /\ MessageHandler(p, Head(channel[p].inflight), cb1, cb2)
    /\ channel' =
        [channel EXCEPT
            ![p].inflight = Tail(@),
            ![p].log = Append(@, [frame |-> Head(channel[p].inflight), effects |-> effects',
                                  status |-> simulatorStatus'])]

\* the peer's close frame arrived, or the connection broke: the socket is
\* closing and its close event is still to come
PeerClosing(p) ==
    /\ ~uncaught
    /\ sockets[p].readyState = "OPEN"
    /\ sockets' = [sockets EXCEPT ![p].readyState = "CLOSING"]
    /\ effects' = <<>>
    /\ last' = Op("closing", p, Undefined, Undefined, Normal, Normal, Normal)
    /\ UNCHANGED <<client, simulatorStatus, wss, pendingCloses, uncaught, channel, notifications>>

\* the close handler without the identity test
OnCloseAnyHandle(p, cb) ==
    /\ ~uncaught
    /\ sockets[p].readyState \in {"OPEN", "CLOSING"}
    /\ sockets' = [sockets EXCEPT ![p].readyState = "CLOSED"]
    /\ client' = NoPeer
    /\ effects' = <<AssignClient(NoPeer), Call("onDisconnect", Undefined)>>
    /\ uncaught' = (cb.k = "throw")
    /\ last' = Op("close", p, Undefined, Undefined, Normal, cb, cb)
    /\ notifications' = Append(notifications, Notified("onDisconnect", p))
    /\ UNCHANGED <<simulatorStatus, wss, pendingCloses, channel>>

\* the close handler that also resets the simulator status
OnCloseResetStatus(p, cb) ==
    /\ ~uncaught
    /\ sockets[p].readyState \in {"OPEN", "CLOSING"}
    /\ sockets' = [sockets EXCEPT ![p].readyState = "CLOSED"]
    /\ IF client = p
       THEN /\ client' = NoPeer
            /\ simulatorStatus' = InitialStatus
            /\ effects' = <<AssignClient(NoPeer), Call("onDisconnect", Undefined)>>
            /\ notifications' = Append(notifications, Notified("onDisconnect", p))
            /\ uncaught' = (cb.k = "throw")
            /\ last' = Op("close", p, Undefined, Undefined, Normal, cb, cb)
       ELSE /\ effects' = <<>>
            /\ last' = Op("close", p, Undefined, Undefined, Normal, Normal, Normal)
            /\ UNCHANGED <<client, uncaught, simulatorStatus, notifications>>
    /\ UNCHANGED <<wss, pendingCloses, channel>>

\* the close handler that notifies the consumer of a stale handle's close too
OnCloseNotifyStale(p, cb) ==
    /\ ~uncaught
    /\ sockets[p].readyState \in {"OPEN", "CLOSING"}
    /\ sockets' = [sockets EXCEPT ![p].readyState = "CLOSED"]
    /\ client' = IF client = p THEN NoPeer ELSE client
    /\ effects' =
        (IF client = p THEN <<AssignClient(NoPeer)>> ELSE <<>>)
            \o <<Call("onDisconnect", Undefined)>>
    /\ notifications' = Append(notifications, Notified("onDisconnect", p))
    /\ uncaught' = (cb.k = "throw")
    /\ last' = Op("close", p, Undefined, Undefined, Normal, cb, cb)
    /\ UNCHANGED <<simulatorStatus, wss, pendingCloses, channel>>

\* ws.on("close")
OnClose(p, cb) ==
    /\ ~uncaught
    /\ sockets[p].readyState \in {"OPEN", "CLOSING"}
    /\ sockets' = [sockets EXCEPT ![p].readyState = "CLOSED"]
    /\ IF client = p
       THEN /\ client' = NoPeer
            /\ effects' = <<AssignClient(NoPeer), Call("onDisconnect", Undefined)>>
            /\ notifications' = Append(notifications, Notified("onDisconnect", p))
            /\ uncaught' = (cb.k = "throw")
            /\ last' = Op("close", p, Undefined, Undefined, Normal, cb, cb)
       ELSE /\ effects' = <<>>
            /\ last' = Op("close", p, Undefined, Undefined, Normal, Normal, Normal)
            /\ UNCHANGED <<client, uncaught, notifications>>
    /\ UNCHANGED <<simulatorStatus, wss, pendingCloses, channel>>

\* the socket error handler that also closes the peer it is told about
OnSocketErrorClosePeer(p, err, cb) ==
    /\ ~uncaught
    /\ sockets[p].readyState \in {"OPEN", "CLOSING"}
    /\ sockets' = WsClosed(sockets, p, 1011, "error")
    /\ effects' = <<Call("onError", err), WsCloseEffect(p, 1011, "error")>>
    /\ uncaught' = (cb.k = "throw")
    /\ last' = Op("error", p, err, Undefined, Normal, cb, cb)
    /\ UNCHANGED <<client, simulatorStatus, wss, pendingCloses, channel, notifications>>

\* ws.on("error")
OnSocketError(p, err, cb) ==
    /\ ~uncaught
    /\ sockets[p].readyState \in {"OPEN", "CLOSING"}
    /\ effects' = <<Call("onError", err)>>
    /\ uncaught' = (cb.k = "throw")
    /\ last' = Op("error", p, err, Undefined, Normal, cb, cb)
    /\ UNCHANGED <<client, simulatorStatus, sockets, wss, pendingCloses, channel, notifications>>

\* wss.on("error")
OnServerError(err, cb) ==
    /\ ~uncaught
    /\ wss # "CLOSED"
    /\ effects' = <<Call("onError", err)>>
    /\ uncaught' = (cb.k = "throw")
    /\ last' = Op("serverError", NoPeer, err, Undefined, Normal, cb, cb)
    /\ UNCHANGED <<client, simulatorStatus, sockets, wss, pendingCloses, channel, notifications>>

(***************************************************************************)
(* send and the request builders.                                          *)
(***************************************************************************)
Sent(calls, ret) == [calls |-> calls, ret |-> ret]

\* this.client !== undefined && this.client.readyState === WebSocket.OPEN
isClientConnected == client # NoPeer /\ sockets[client].readyState = "OPEN"

\* send testing only that a peer is attached
sendNoReadyCheck(data, transport, cb) ==
    IF client = NoPeer
    THEN Sent(<<>>, Returned(Bool(FALSE)))
    ELSE LET s == IF data.k = "string" THEN Text(data.s) ELSE Stringify(data)
             Catch(err) ==
                Sent(<<Call("onError", AsError(err))>>,
                     IF cb.k = "throw" THEN cb ELSE Returned(Bool(FALSE)))
         IN  IF s.kind = "throw" THEN Catch(Err(W("TypeError")))
             ELSE IF transport.k = "throw" THEN Catch(transport.val)
             ELSE Sent(<<WsSendEffect(client, IF s.kind = "text" THEN Str(s.text) ELSE Undefined)>>,
                       Returned(Bool(TRUE)))

\* send without its try and catch
sendNoCatch(data, transport, cb) ==
    IF client = NoPeer \/ sockets[client].readyState # "OPEN"
    THEN Sent(<<>>, Returned(Bool(FALSE)))
    ELSE LET s == IF data.k = "string" THEN Text(data.s) ELSE Stringify(data)
         IN  IF s.kind = "throw" THEN Sent(<<>>, Thrown(Err(W("TypeError"))))
             ELSE IF transport.k = "throw" THEN Sent(<<>>, transport)
             ELSE Sent(<<WsSendEffect(client, IF s.kind = "text" THEN Str(s.text) ELSE Undefined)>>,
                       Returned(Bool(TRUE)))

\* send writing to the oldest socket that has not closed
sendOldestSocket(data, transport, cb) ==
    IF client = NoPeer \/ sockets[client].readyState # "OPEN"
    THEN Sent(<<>>, Returned(Bool(FALSE)))
    ELSE LET s == IF data.k = "string" THEN Text(data.s) ELSE Stringify(data)
             Catch(err) ==
                Sent(<<Call("onError", AsError(err))>>,
                     IF cb.k = "throw" THEN cb ELSE Returned(Bool(FALSE)))
             oldest ==
                CHOOSE p \in Peers :
                    /\ sockets[p].readyState \in {"OPEN", "CLOSING"}
                    /\ \A q \in Peers : q < p => sockets[q].readyState \notin {"OPEN", "CLOSING"}
         IN  IF s.kind = "throw" THEN Catch(Err(W("TypeError")))
             ELSE IF transport.k = "throw" THEN Catch(transport.val)
             ELSE Sent(<<WsSendEffect(oldest, IF s.kind = "text" THEN Str(s.text) ELSE Undefined)>>,
                       Returned(Bool(TRUE)))

\* transport: how this.client.send ends; cb: how the error callback ends
send(data, transport, cb) ==
    IF client = NoPeer \/ sockets[client].readyState # "OPEN"
    THEN Sent(<<>>, Returned(Bool(FALSE)))
    ELSE LET s == IF data.k = "string" THEN Text(data.s) ELSE Stringify(data)
             Catch(err) ==
                Sent(<<Call("onError", AsError(err))>>,
                     IF cb.k = "throw" THEN cb ELSE Returned(Bool(FALSE)))
         IN  IF s.kind = "throw" THEN Catch(Err(W("TypeError")))
             ELSE IF transport.k = "throw" THEN Catch(transport.val)
             ELSE Sent(<<WsSendEffect(client, IF s.kind = "text" THEN Str(s.text) ELSE Undefined)>>,
                       Returned(Bool(TRUE)))

RequestAircraftDataEnvelope == Envelope("request", O1("type", Str(W("AircraftData"))))
RequestSimulatorStatusEnvelope == Envelope("Status", Obj(<<>>))
\* a ping carrying an empty data member
PingEnvelopeWithData == Envelope("ping", Obj(<<>>))
PingEnvelope == BareEnvelope("ping")

\* transport and cb are read only where send reaches them
Reached(data, transport, cb) ==
    LET open == client # NoPeer /\ sockets[client].readyState = "OPEN"
        serialized == data.k = "string" \/ Stringify(data).kind # "throw"
    IN  /\ ~(open /\ serialized) => transport = Normal
        /\ ~(open /\ (~serialized \/ transport.k = "throw")) => cb = Normal

\* a call that detaches the peer when the frame could not be sent
ApiCallDetachOnFailure(name, data, transport, cb, r) ==
    /\ ~uncaught
    /\ effects' = r.calls
    /\ client' = IF r.ret = Returned(Bool(TRUE)) THEN client ELSE NoPeer
    /\ last' = Op(name, client, data, Undefined, transport, cb, r.ret)
    /\ UNCHANGED <<simulatorStatus, sockets, wss, pendingCloses, uncaught, channel, notifications>>

ApiCall(name, data, transport, cb, r) ==
    /\ ~uncaught
    /\ effects' = r.calls
    /\ last' = Op(name, client, data, Undefined, transport, cb, r.ret)
    /\ UNCHANGED <<client, simulatorStatus, sockets, wss, pendingCloses, uncaught, channel, notifications>>

Send(data, transport, cb) ==
    /\ Reached(data, transport, cb)
    /\ ApiCall("send", data, transport, cb, send(data, transport, cb))

RequestAircraftData(transport, cb) ==
    /\ Reached(RequestAircraftDataEnvelope, transport, cb)
    /\ ApiCall("requestAircraftData", RequestAircraftDataEnvelope, transport, cb,
            send(RequestAircraftDataEnvelope, transport, cb))

RequestSimulatorStatus(transport, cb) ==
    /\ Reached(RequestSimulatorStatusEnvelope, transport, cb)
    /\ ApiCall("requestSimulatorStatus", RequestSimulatorStatusEnvelope, transport, cb,
            send(RequestSimulatorStatusEnvelope, transport, cb))

Ping(transport, cb) ==
    /\ Reached(PingEnvelope, transport, cb)
    /\ ApiCall("ping", PingEnvelope, transport, cb, send(PingEnvelope, transport, cb))

(***************************************************************************)
(* The queries.                                                            *)
(***************************************************************************)
\* { ...this.simulatorStatus }
getSimulatorStatus == Snapshot(simulatorStatus)
isSimulatorConnectedTruthy == ~Falsy(simulatorStatus.simulator_connected)

isSimulatorConnected == simulatorStatus.simulator_connected = Bool(TRUE)
isSimulatorLoaded == simulatorStatus.simulator_loaded = Bool(TRUE)
getSimulatorName == simulatorStatus.simulator_name

Query(name, result) ==
    /\ ~uncaught
    /\ effects' = <<>>
    /\ last' = Op(name, client, Undefined, Undefined, Normal, Normal, Returned(result))
    /\ UNCHANGED <<client, simulatorStatus, sockets, wss, pendingCloses, uncaught, channel, notifications>>

GetSimulatorStatus == Query("getSimulatorStatus", getSimulatorStatus)
IsSimulatorConnected == Query("isSimulatorConnected", Bool(isSimulatorConnected))
IsSimulatorLoaded == Query("isSimulatorLoaded", Bool(isSimulatorLoaded))
GetSimulatorName == Query("getSimulatorName", getSimulatorName)
IsClientConnected == Query("isClientConnected", Bool(isClientConnected))

(***************************************************************************)
(* The consumer and the objects it is handed.  The spread of lines 189 and *)
(* 257 makes a new object whose four members hold the values of the        *)
(* members of this.simulatorStatus: a write to a member of the new object  *)
(* stays in it, and a member whose value is an object refers to the one    *)
(* object this.simulatorStatus refers to as well.                          *)
(***************************************************************************)
StatusFields == {"last_error", "simulator_connected", "simulator_loaded", "simulator_name"}

\* the status object the last operation handed to the consumer: the
\* argument of the simulator-status callback, or getSimulatorStatus()'s result
HandedOut ==
    IF last.op = "getSimulatorStatus" THEN <<last.ret.val>>
    ELSE IF last.op = "message" /\ effects # <<>> /\ effects[1].e = "onSimulatorStatus"
    THEN <<effects[1].arg>>
    ELSE <<>>

\* copy[field] = v
ConsumerWritesField(field, v) ==
    /\ ~uncaught
    /\ HandedOut # <<>>
    /\ effects' = <<>>
    /\ last' = Op("consumerWrite", client, Str(<<field>>), Undefined, Normal, Normal,
                  Returned(Obj(SetProp(HandedOut[1].props, W(field), v))))
    /\ UNCHANGED <<client, simulatorStatus, sockets, wss, pendingCloses, uncaught, channel, notifications>>

\* copy[field][key] = v, where copy[field] is an object
ConsumerWritesMember(field, key, v) ==
    /\ ~uncaught
    /\ HandedOut # <<>>
    /\ LET inner == Get(HandedOut[1], W(field))
           written == Obj(SetProp(inner.props, W(key), v))
       IN  /\ inner.k = "object"
           /\ simulatorStatus' = [simulatorStatus EXCEPT ![field] = written]
           /\ last' = Op("consumerWrite", client, Str(<<field, ".", key>>), Undefined, Normal,
                         Normal, Returned(Obj(SetProp(HandedOut[1].props, W(field), written))))
    /\ effects' = <<>>
    /\ UNCHANGED <<client, sockets, wss, pendingCloses, uncaught, channel, notifications>>

(***************************************************************************)
(* close                                                                   *)
(***************************************************************************)
\* close() asking the listening transport first
CloseListenerFirst ==
    /\ ~uncaught
    /\ pendingCloses < MaxCloses
    /\ sockets' =
        IF client # NoPeer THEN WsClosed(sockets, client, 1000, "Server closing") ELSE sockets
    /\ client' = NoPeer
    /\ wss' = IF wss \in {"BINDING", "RUNNING"} THEN "CLOSING" ELSE wss
    /\ pendingCloses' = pendingCloses + 1
    /\ effects' =
        <<WssCloseEffect>> \o
        (IF client # NoPeer
         THEN <<WsCloseEffect(client, 1000, "Server closing"), AssignClient(NoPeer)>>
         ELSE <<>>)
    /\ last' = Op("close()", client, Undefined, Undefined, Normal, Normal, Normal)
    /\ UNCHANGED <<simulatorStatus, uncaught, channel, notifications>>

Close ==
    /\ ~uncaught
    /\ pendingCloses < MaxCloses
    /\ sockets' =
        IF client # NoPeer THEN WsClosed(sockets, client, 1000, "Server closing") ELSE sockets
    /\ client' = NoPeer
    /\ wss' = IF wss \in {"BINDING", "RUNNING"} THEN "CLOSING" ELSE wss
    /\ pendingCloses' = pendingCloses + 1
    /\ effects' =
        (IF client # NoPeer
         THEN <<WsCloseEffect(client, 1000, "Server closing"), AssignClient(NoPeer)>>
         ELSE <<>>) \o <<WssCloseEffect>>
    /\ last' = Op("close()", client, Undefined, Undefined, Normal, Normal, Normal)
    /\ UNCHANGED <<simulatorStatus, uncaught, channel, notifications>>

\* the listening transport has shut down: the callbacks given to wss.close run
WssClosed ==
    /\ ~uncaught
    /\ wss = "CLOSING" \/ (wss = "CLOSED" /\ pendingCloses > 0)
    /\ wss' = "CLOSED"
    /\ pendingCloses' = 0
    /\ effects' = [i \in 1..pendingCloses |-> ResolveEffect]
    /\ last' = Op("wssClosed", NoPeer, Undefined, Undefined, Normal, Normal, Normal)
    /\ UNCHANGED <<client, simulatorStatus, sockets, uncaught, channel, notifications>>

TransportOutcomes == {Normal} \cup {Thrown(e) : e \in TransportErrors}

Next ==
    \/ \E cb \in ListenerOutcomes : OnListening(cb)
    \/ \E p \in Peers, cb \in ListenerOutcomes : OnConnection(p, cb)
    \/ \E p \in Peers, raw \in InboundFrames, cb1 \in CallbackOutcomes, cb2 \in ListenerOutcomes :
            OnMessage(p, raw, cb1, cb2)
    \/ \E p \in Peers : PeerClosing(p)
    \/ \E p \in Peers, cb \in ListenerOutcomes : OnClose(p, cb)
    \/ \E p \in Peers, err \in TransportErrors, cb \in ListenerOutcomes :
            OnSocketError(p, err, cb)
    \/ \E err \in TransportErrors, cb \in ListenerOutcomes : OnServerError(err, cb)
    \/ \E data \in Payloads, t \in TransportOutcomes, cb \in ListenerOutcomes :
            Send(data, t, cb)
    \/ \E t \in TransportOutcomes, cb \in ListenerOutcomes : RequestAircraftData(t, cb)
    \/ \E t \in TransportOutcomes, cb \in ListenerOutcomes : RequestSimulatorStatus(t, cb)
    \/ \E t \in TransportOutcomes, cb \in ListenerOutcomes : Ping(t, cb)
    \/ Close
    \/ WssClosed

Spec == Init /\ [][Next]_vars

(***************************************************************************)
(* The envelope codec on its own: a frame is drawn, parseMessage decodes   *)
(* it.                                                                     *)
(***************************************************************************)
\* the JSON values whose texts are framed
CodecValues ==
    { Null, Bool(TRUE), Bool(FALSE), Num(0), Num(5), Num(-1), Num(2200),
      Str(<<>>), Str(W("ping")),
      Arr(<<>>), Arr(<<Num(1), Null>>), Arr(<<BareEnvelope("x")>>),
      Obj(<<>>), BareEnvelope("ping"), BareEnvelope("unknown"),
      O1("type", Str(<<>>)), O1("type", Num(5)), O1("type", Null),
      O1("type", BareEnvelope("nested")), O1("data", Num(1)),
      Envelope("Status", Obj(<<>>)), Envelope("Status", Null),
      Envelope("Error", Str(W("bad"))),
      RequestAircraftDataEnvelope, AltitudeNested,
      Obj(<< <<W("data"), Num(1)>>, <<W("ts"), Num(10)>>, <<W("type"), Str(W("pong"))>> >>) }

\* the ways the transport hands over a text: a string, a buffer, an
\* ArrayBuffer, a list of buffer chunks
Framings(text) ==
    LET h == Len(text) \div 2 IN
    { Str(text), Buf(text), ArrayBuf(text),
      Chunks(<<Buf(SubSeq(text, 1, h)), Buf(SubSeq(text, h + 1, Len(text)))>>) }

SpacedEnvelopeText == <<"{", Blank, Quote, "type", Quote, Blank, ":", Blank, Quote, "x", Quote, Blank, "}">>
RepeatedKeyText ==
    <<"{", Quote, "type", Quote, ":", Quote, "a", Quote, ",", Quote, "type", Quote, ":", "5", "}">>

\* texts that are no JSON
MalformedTexts ==
    { NotJson, <<>>, <<"{", Quote, "type", Quote, ":">>, <<"{", "}", "x">>, <<"0", "1">>,
      <<"[", "1", ",", "]">>, <<Quote, "open">>, <<InvalidByte>> }

CodecFrames ==
    UNION {Framings(Stringify(v).text) : v \in CodecValues}
        \cup UNION {Framings(t) : t \in MalformedTexts}
        \cup {Str(SpacedEnvelopeText), Str(RepeatedKeyText), Num(5)}

InitCodec ==
    /\ channel = [p \in Peers |-> EmptyChannel]
    /\ notifications = <<>>
    /\ client = NoPeer
    /\ simulatorStatus = InitialStatus
    /\ sockets = [p \in Peers |-> NewSocket]
    /\ wss = "BINDING"
    /\ pendingCloses = 0
    /\ uncaught = FALSE
    /\ effects = <<>>
    /\ \E raw \in CodecFrames :
            last = Op("frame", NoPeer, raw, Undefined, Normal, Normal, Normal)

DecodeFrame ==
    /\ last.op = "frame"
    /\ last' = Op("parseMessage", NoPeer, last.arg, parseMessage(last.arg), Normal, Normal, Normal)
    /\ UNCHANGED <<client, simulatorStatus, sockets, wss, pendingCloses, uncaught, effects, channel,
                   notifications>>

NextCodec == DecodeFrame

SpecCodec == InitCodec /\ [][NextCodec]_vars

(***************************************************************************)
(* The dispatch engine with one peer: the manager starts listening, a peer *)
(* connects and sends envelopes of every type and shape.                   *)
(***************************************************************************)
FirstConnection ==
    /\ \A q \in Peers : sockets[q].readyState = "NEW"
    /\ \E p \in Peers : OnConnection(p, Normal)

NextDispatch ==
    \/ OnListening(Normal)
    \/ FirstConnection
    \/ \E p \in Peers, raw \in DispatchFrames, cb1 \in CallbackOutcomes, cb2 \in ListenerOutcomes :
            OnMessage(p, raw, cb1, cb2)

SpecDispatch == Init /\ [][NextDispatch]_vars

(***************************************************************************)
(* The status tracker with one peer: the peer sends Status envelopes, the  *)
(* consumer queries the status and writes to the objects it is handed.     *)
(***************************************************************************)
\* what the consumer writes
ConsumerValues == {Str(W("changed"))}

NextStatus ==
    \/ OnListening(Normal)
    \/ FirstConnection
    \/ \E p \in Peers, raw \in StatusFrames, cb1 \in CallbackOutcomes, cb2 \in ListenerOutcomes :
            OnMessage(p, raw, cb1, cb2)
    \/ GetSimulatorStatus
    \/ IsSimulatorConnected
    \/ IsSimulatorLoaded
    \/ GetSimulatorName
    \/ IsClientConnected
    \/ \E f \in StatusFields, v \in ConsumerValues : ConsumerWritesField(f, v)
    \/ \E f \in StatusFields, v \in ConsumerValues : ConsumerWritesMember(f, "title", v)

SpecStatus == Init /\ [][NextStatus]_vars

(***************************************************************************)
(* The message path of one connection: the peer sends frames, the          *)
(* transport emits them one by one in the order sent, the handler runs.    *)
(***************************************************************************)
FifoFrames ==
    { FrameOf(Envelope("Status", O1("simulator_connected", Bool(TRUE)))),
      FrameOf(Envelope("Status", O1("simulator_connected", Bool(FALSE)))),
      FrameOf(AltitudeNested),
      Str(NotJson) }

NextFifo ==
    \/ OnListening(Normal)
    \/ FirstConnection
    \/ \E p \in Peers, raw \in FifoFrames : PeerSends(p, raw)
    \/ \E p \in Peers, cb1 \in CallbackOutcomes, cb2 \in ListenerOutcomes : Deliver(p, cb1, cb2)

SpecFifo == Init /\ [][NextFifo]_vars

(***************************************************************************)
(* Status codes (statusCodes.ts)                                           *)
(***************************************************************************)
Phrase(words) ==
    LET RECURSIVE join(_)
        join(i) == IF i > Len(words) THEN <<>>
                   ELSE IF i = Len(words) THEN <<words[i]>>
                   ELSE <<words[i], Blank>> \o join(i + 1)
    IN  join(1)

\* enum StatusCodeCategory
SUCCESS == Str(<<"2", "xx">>)
CLIENT_ERROR == Str(<<"4", "xx">>)
SERVER_ERROR == Str(<<"5", "xx">>)
SIMULATOR == Str(<<"6", "xx">>)
CUSTOM == Str(<<"9", "xx">>)

\* enum StatusCode, in declaration order
StatusCodeNumbers ==
    <<200, 201, 202,
      400, 401, 403, 404, 405, 408, 409,
      500, 501, 502, 503, 504,
      600, 601, 602, 603, 604, 605, 606,
      900, 901, 902, 903, 904, 905, 906, 907, 908, 909>>

StatusCode == [i \in 1..Len(StatusCodeNumbers) |-> Str(NumText(StatusCodeNumbers[i]))]

CustomText(n) == Str(Phrase(<<"Custom", "status", "code">>) \o <<Blank>> \o NumText(n))

StatusCodeDescription ==
    Obj(<< <<NumText(200), Str(Phrase(<<"Request", "successful">>))>>,
           <<NumText(201), Str(Phrase(<<"Resource", "created", "successfully">>))>>,
           <<NumText(202), Str(Phrase(<<"Request", "accepted", "for", "processing">>))>>,
           <<NumText(400), Str(Phrase(<<"Invalid", "request", "format", "or", "parameters">>))>>,
           <<NumText(401), Str(Phrase(<<"Authentication", "required">>))>>,
           <<NumText(403), Str(Phrase(<<"Access", "denied">>))>>,
           <<NumText(404), Str(Phrase(<<"Resource", "not", "found">>))>>,
           <<NumText(405), Str(Phrase(<<"Method", "not", "allowed">>))>>,
           <<NumText(408), Str(Phrase(<<"Request", "timeout">>))>>,
           <<NumText(409), Str(Phrase(<<"Request", "conflicts", "with", "current", "state">>))>>,
           <<NumText(500), Str(Phrase(<<"Internal", "server", "error">>))>>,
           <<NumText(501), Str(Phrase(<<"Feature", "not", "implemented">>))>>,
           <<NumText(502), Str(Phrase(<<"Bad", "gateway">>))>>,
           <<NumText(503), Str(Phrase(<<"Service", "temporarily", "unavailable">>))>>,
           <<NumText(504), Str(Phrase(<<"Gateway", "timeout">>))>>,
           <<NumText(600), Str(Phrase(<<"Simulator", "connected", "successfully">>))>>,
           <<NumText(601), Str(Phrase(<<"Simulator", "disconnected">>))>>,
           <<NumText(602), Str(Phrase(<<"Simulator", "paused">>))>>,
           <<NumText(603), Str(Phrase(<<"Simulator", "resumed">>))>>,
           <<NumText(604), Str(Phrase(<<"Simulator", "error", "occurred">>))>>,
           <<NumText(605), Str(Phrase(<<"Simulator", "initializing">>))>>,
           <<NumText(606), Str(Phrase(<<"Simulator", "ready", "for", "operations">>))>>,
           <<NumText(900), CustomText(900)>>,
           <<NumText(901), CustomText(901)>>,
           <<NumText(902), CustomText(902)>>,
           <<NumText(903), CustomText(903)>>,
           <<NumText(904), CustomText(904)>>,
           <<NumText(905), CustomText(905)>>,
           <<NumText(906), CustomText(906)>>,
           <<NumText(907), CustomText(907)>>,
           <<NumText(908), CustomText(908)>>,
           <<NumText(909), CustomText(909)>> >>)

NaN == [k |-> "NaN"]
isNaN(v) == v.k = "NaN"

\* parseInt(text, 10): leading white space is skipped, one sign is read,
\* then the longest run of decimal digits; no digit at all gives NaN
parseInt(text) ==
    LET i == SkipWs(text, 1)
        signed == i <= Len(text) /\ text[i] \in {"+", "-"}
        neg == signed /\ text[i] = "-"
        d == IF signed THEN i + 1 ELSE i
        e == DigitsEnd(text, d)
    IN  IF e = d THEN NaN
        ELSE LET n == DigitsValue(text, d, e, 0) IN Num(IF neg THEN -n ELSE n)

getStatusCodeCategoryInclusive(code) ==
    LET codeNum == parseInt(code.s) IN
    IF isNaN(codeNum) THEN Null
    ELSE IF codeNum.n >= 200 /\ codeNum.n <= 300 THEN SUCCESS
    ELSE IF codeNum.n >= 400 /\ codeNum.n <= 500 THEN CLIENT_ERROR
    ELSE IF codeNum.n >= 500 /\ codeNum.n <= 600 THEN SERVER_ERROR
    ELSE IF codeNum.n >= 600 /\ codeNum.n <= 700 THEN SIMULATOR
    ELSE IF codeNum.n >= 900 /\ codeNum.n <= 1000 THEN CUSTOM
    ELSE Null

getStatusCodeCategory(code) ==
    LET codeNum == parseInt(code.s) IN
    IF isNaN(codeNum) THEN Null
    ELSE IF codeNum.n >= 200 /\ codeNum.n < 300 THEN SUCCESS
    ELSE IF codeNum.n >= 400 /\ codeNum.n < 500 THEN CLIENT_ERROR
    ELSE IF codeNum.n >= 500 /\ codeNum.n < 600 THEN SERVER_ERROR
    ELSE IF codeNum.n >= 600 /\ codeNum.n < 700 THEN SIMULATOR
    ELSE IF codeNum.n >= 900 /\ codeNum.n < 1000 THEN CUSTOM
    ELSE Null

isValidStatusCodeByCategory(code) == getStatusCodeCategory(code) # Null

\* Object.values(StatusCode).includes(code)
isValidStatusCode(code) == \E i \in 1..Len(StatusCode) : StatusCode[i] = code

getStatusCodeDescriptionUnguarded(code) == Get(StatusCodeDescription, code.s)

getStatusCodeDescription(code) ==
    IF isValidStatusCode(code) THEN Get(StatusCodeDescription, code.s)
    ELSE Str(<<"Unknown", Blank, "status", Blank, "code", ":", Blank>> \o code.s)

isSuccessStatusCode(code) == getStatusCodeCategory(code) = SUCCESS

isErrorStatusCode(code) ==
    LET category == getStatusCodeCategory(code) IN
    category = CLIENT_ERROR \/ category = SERVER_ERROR

isSimulatorStatusCode(code) == getStatusCodeCategory(code) = SIMULATOR

\* Code strings given to the functions
MaxCode == 1001

CodeStrings ==
    LET SignedCodes == {150, 200, 404, 650, 999}
        NumeralCodes ==
            {NumText(n) : n \in 0..MaxCode}
                \cup {<<"0">> \o NumText(n) : n \in SignedCodes}
                \cup {<<"+">> \o NumText(n) : n \in SignedCodes}
                \cup {<<"-">> \o NumText(n) : n \in SignedCodes}
                \cup {<<Blank>> \o NumText(n) : n \in SignedCodes}
        OtherCodes ==
                { <<>>,
                  <<"abc">>,
                  <<"OK">>,
                  <<"-">>,
                  <<Blank>>,
                  <<"2", "xx">>,
                  <<"x", "2", "0", "0">>,
                  <<"4", "0", "4", "abc">>,
                  <<"6", ".", "5", "e", "2">>,
                  <<"4", "0", "4", ".", "9">>,
                  <<"0", "x", "2", "5", "8">>,
                  <<".", "5">> }
    IN  {Str(s) : s \in NumeralCodes \cup OtherCodes}

InitCodes ==
    /\ channel = [p \in Peers |-> EmptyChannel]
    /\ notifications = <<>>
    /\ client = NoPeer
    /\ simulatorStatus = InitialStatus
    /\ sockets = [p \in Peers |-> NewSocket]
    /\ wss = "BINDING"
    /\ pendingCloses = 0
    /\ uncaught = FALSE
    /\ effects = <<>>
    /\ \E code \in CodeStrings :
            last = Op("code", NoPeer, code, Undefined, Normal, Normal, Normal)

CodeCall(name, result) ==
    /\ last.op = "code"
    /\ last' = Op(name, NoPeer, last.arg, Undefined, Normal, Normal, Returned(result))
    /\ UNCHANGED <<client, simulatorStatus, sockets, wss, pendingCloses, uncaught, effects, channel,
                   notifications>>

IsValidStatusCode == CodeCall("isValidStatusCode", Bool(isValidStatusCode(last.arg)))

GetStatusCodeCategory == CodeCall("getStatusCodeCategory", getStatusCodeCategory(last.arg))

GetStatusCodeDescription == CodeCall("getStatusCodeDescription", getStatusCodeDescription(last.arg))

IsSuccessStatusCode == CodeCall("isSuccessStatusCode", Bool(isSuccessStatusCode(last.arg)))

IsErrorStatusCode == CodeCall("isErrorStatusCode", Bool(isErrorStatusCode(last.arg)))

IsSimulatorStatusCode == CodeCall("isSimulatorStatusCode", Bool(isSimulatorStatusCode(last.arg)))

NextCodes ==
    \/ IsValidStatusCode
    \/ GetStatusCodeCategory
    \/ GetStatusCodeDescription
    \/ IsSuccessStatusCode
    \/ IsErrorStatusCode
    \/ IsSimulatorStatusCode

SpecCodes == InitCodes /\ [][NextCodes]_vars

(***************************************************************************)
(* One peer's session: frames of every type arrive, the consumer sends,    *)
(* requests and queries.                                                   *)
(***************************************************************************)
NextSession ==
    \/ OnListening(Normal)
    \/ FirstConnection
    \/ \E p \in Peers, raw \in DispatchFrames, cb1 \in CallbackOutcomes, cb2 \in ListenerOutcomes :
            OnMessage(p, raw, cb1, cb2)
    \/ \E p \in Peers : PeerClosing(p)
    \/ \E data \in Payloads, t \in TransportOutcomes, cb \in ListenerOutcomes :
            Send(data, t, cb)
    \/ \E t \in TransportOutcomes, cb \in ListenerOutcomes : RequestAircraftData(t, cb)
    \/ \E t \in TransportOutcomes, cb \in ListenerOutcomes : RequestSimulatorStatus(t, cb)
    \/ \E t \in TransportOutcomes, cb \in ListenerOutcomes : Ping(t, cb)
    \/ GetSimulatorStatus
    \/ IsSimulatorConnected
    \/ IsSimulatorLoaded
    \/ GetSimulatorName
    \/ IsClientConnected

SpecSession == Init /\ [][NextSession]_vars

(***************************************************************************)
(* The life of the connections alone: peers connect, close and are closed, *)
(* the manager is closed.  A socket that is closing gets its close event.  *)
(***************************************************************************)
NextLifecycle ==
    \/ \E cb \in ListenerOutcomes : OnListening(cb)
    \/ \E p \in Peers, cb \in ListenerOutcomes : OnConnection(p, cb)
    \/ \E p \in Peers : PeerClosing(p)
    \/ \E p \in Peers, cb \in ListenerOutcomes : OnClose(p, cb)
    \/ \E p \in Peers, err \in TransportErrors, cb \in ListenerOutcomes :
            OnSocketError(p, err, cb)
    \/ Close
    \/ WssClosed

\* the close event of a socket whose closing handshake has begun
ClosingEnds(p) ==
    /\ sockets[p].readyState = "CLOSING"
    /\ \E cb \in ListenerOutcomes : OnClose(p, cb)

SpecLifecycle ==
    /\ Init
    /\ [][NextLifecycle]_vars
    /\ \A p \in Peers : WF_vars(ClosingEnds(p))
    /\ WF_vars(WssClosed)

(***************************************************************************)
(* Properties.                                                             *)
(***************************************************************************)
NewClientClose == [code |-> 1000, reason |-> "New client connected"]
Indices(P(_)) == {i \in 1..Len(effects) : P(effects[i])}

\* C1: a connect event for peer B arriving while peer A is current closes A
\* with code 1000 and reason "New client connected", then adopts B, then
\* fires the connection notification, in this order; afterwards the current
\* peer is B, and a peer that was attached once and is not any more is never
\* the current peer again.
C1_SupersessionOrder ==
    [][ /\ (last'.op = "connection" /\ client # NoPeer) =>
            /\ effects' = << WsCloseEffect(client, 1000, "New client connected"),
                             AssignClient(last'.peer),
                             Call("onConnection", Undefined) >>
            /\ sockets'[client].closeCall = NewClientClose
            /\ client' = last'.peer
            /\ client' # client
        /\ \A p \in Peers : (sockets[p].readyState # "NEW" /\ client # p) => client' # p
      ]_vars

C1_Witness ==
    /\ last.op = "connection"
    /\ client = 2
    /\ Len(effects) = 3
    /\ effects[1] = WsCloseEffect(1, 1000, "New client connected")
    /\ sockets[1].readyState = "CLOSING"

\* C2: the manager refers to at most one peer; a peer that connected and is
\* not the current one had a close initiated on it by the server or has
\* closed, and no peer but the current one is left open.
C2_SingleOccupancy ==
    /\ client \in Peers \cup {NoPeer}
    /\ \A p \in Peers :
        (sockets[p].readyState # "NEW" /\ p # client) =>
            /\ sockets[p].closeCall # NoCall \/ sockets[p].readyState = "CLOSED"
            /\ sockets[p].readyState # "OPEN"
    /\ Cardinality({p \in Peers : sockets[p].readyState = "OPEN"}) <= 1

C2_Witness ==
    /\ client = 2
    /\ sockets[2].readyState = "OPEN"
    /\ sockets[1].readyState = "CLOSING"
    /\ sockets[1].closeCall = NewClientClose
    /\ last.op = "message"

\* C3: a close event for handle h clears the current peer and fires the
\* disconnect notification, once, exactly when h is the current peer; a
\* close event for any other handle leaves the current peer as it is and
\* fires nothing.
C3_CloseEvent ==
    [][ last'.op = "close" =>
            IF client = last'.peer
            THEN /\ client' = NoPeer
                 /\ effects' = <<AssignClient(NoPeer), Call("onDisconnect", Undefined)>>
            ELSE /\ client' = client
                 /\ effects' = <<>>
      ]_vars

C3_Witness ==
    /\ last.op = "close"
    /\ last.peer = 1
    /\ client = 2
    /\ effects = <<>>
    /\ sockets[1].readyState = "CLOSED"

\* C4: every connect event adopts the new handle once and fires the
\* connection notification once, whether or not a peer was attached; no
\* other operation fires the connection notification.
C4_OneNotificationPerConnect ==
    /\ last.op = "connection" =>
        /\ client = last.peer
        /\ Cardinality(Indices(LAMBDA x : x.e = "client=")) = 1
        /\ Cardinality(Indices(LAMBDA x : x = AssignClient(last.peer))) = 1
        /\ Cardinality(Indices(LAMBDA x : x.e = "onConnection")) = 1
    /\ last.op # "connection" => Indices(LAMBDA x : x.e = "onConnection") = {}

C4_Witness ==
    /\ last.op = "connection"
    /\ last.peer = 2
    /\ effects = <<AssignClient(2), Call("onConnection", Undefined)>>

\* C5: send with no peer attached, or with the attached peer not open,
\* returns false, writes to no socket, throws nothing, invokes no callback
\* and changes no state of the manager.
C5_SendWithoutOpenPeer ==
    [][ (last'.op = "send" /\ (client = NoPeer \/ sockets[client].readyState # "OPEN")) =>
            /\ last'.ret = Returned(Bool(FALSE))
            /\ effects' = <<>>
            /\ UNCHANGED <<client, simulatorStatus, sockets, wss, pendingCloses, uncaught>>
      ]_vars

C5_Witness ==
    /\ last.op = "send"
    /\ client # NoPeer
    /\ sockets[client].readyState = "CLOSING"
    /\ last.ret = Returned(Bool(FALSE))

\* whether serializing data throws, and the error send catches
SerializationThrows(data) == data.k # "string" /\ Stringify(data).kind = "throw"
SendFails(op) == SerializationThrows(op.arg) \/ op.transport.k = "throw"
SendError(op) == IF SerializationThrows(op.arg) THEN Err(W("TypeError")) ELSE op.transport.val
SentText(data) == IF data.k = "string" THEN data ELSE Str(Stringify(data).text)

\* C6 as stated: with a peer attached and open, send returns true exactly
\* when serialization and transmission do not throw; when one throws, the
\* error callback is invoked once with the error, nothing escapes, send
\* returns false, and the current peer and the simulator status are as before.
C6_AsStated ==
    [][ (last'.op = "send" /\ isClientConnected) =>
            /\ last'.ret.k = "return"
            /\ last'.ret = Returned(Bool(TRUE)) <=> ~SendFails(last')
            /\ SendFails(last') =>
                /\ effects' = <<Call("onError", AsError(SendError(last')))>>
                /\ last'.ret = Returned(Bool(FALSE))
            /\ UNCHANGED <<client, simulatorStatus>>
      ]_vars

\* C6, amended: as stated, but when the error callback itself throws, send
\* does not return false: the callback's exception goes to the caller.
C6_SendOutcome ==
    [][ (last'.op = "send" /\ isClientConnected) =>
            /\ last'.ret = Returned(Bool(TRUE)) <=> ~SendFails(last')
            /\ ~SendFails(last') => effects' = <<WsSendEffect(client, SentText(last'.arg))>>
            /\ SendFails(last') =>
                /\ effects' = <<Call("onError", AsError(SendError(last')))>>
                /\ last'.ret = IF last'.cb.k = "throw" THEN last'.cb ELSE Returned(Bool(FALSE))
                /\ last'.ret # Thrown(SendError(last'))
            /\ UNCHANGED <<client, simulatorStatus>>
      ]_vars

C6_Witness ==
    /\ last.op = "send"
    /\ last.arg = Circular
    /\ isClientConnected
    /\ effects = <<Call("onError", Err(W("TypeError")))>>
    /\ last.ret = Returned(Bool(FALSE))

BuilderOps == {"requestAircraftData", "requestSimulatorStatus", "ping"}

\* the frames of the three requests, as written on the wire
RequestAircraftDataText ==
    <<"{", Quote, "type", Quote, ":", Quote, "request", Quote, ",",
      Quote, "data", Quote, ":", "{", Quote, "type", Quote, ":", Quote, "AircraftData", Quote, "}", "}">>
RequestSimulatorStatusText ==
    <<"{", Quote, "type", Quote, ":", Quote, "Status", Quote, ",", Quote, "data", Quote, ":", "{", "}", "}">>
PingText == <<"{", Quote, "type", Quote, ":", Quote, "ping", Quote, "}">>

WireText(op) ==
    CASE op = "requestAircraftData" -> RequestAircraftDataText
      [] op = "requestSimulatorStatus" -> RequestSimulatorStatusText
      [] op = "ping" -> PingText

BuilderResult ==
    /\ last'.ret = Returned(Bool(TRUE)) <=> (isClientConnected /\ last'.transport.k = "return")
    /\ last'.ret = Returned(Bool(TRUE)) =>
            effects' = <<WsSendEffect(client, Str(WireText(last'.op)))>>
    /\ last'.ret # Returned(Bool(TRUE)) => Indices(LAMBDA x : x.e = "ws.send")' = {}

\* C7 as stated: each request builder returns what send returns for its
\* envelope, writes one frame when it returns true and none when it returns
\* false, and never throws.
C7_AsStated ==
    [][ last'.op \in BuilderOps =>
            /\ BuilderResult
            /\ last'.ret \in {Returned(Bool(TRUE)), Returned(Bool(FALSE))}
      ]_vars

\* C7, amended: as stated, but a builder throws in one case: the
\* transmission throws and the error callback, invoked with that error,
\* throws itself.
C7_Builders ==
    [][ last'.op \in BuilderOps =>
            /\ BuilderResult
            /\ last'.ret \notin {Returned(Bool(TRUE)), Returned(Bool(FALSE))} =>
                /\ isClientConnected
                /\ last'.transport.k = "throw"
                /\ effects' = <<Call("onError", AsError(last'.transport.val))>>
                /\ last'.cb.k = "throw"
                /\ last'.ret = last'.cb
      ]_vars

C7_Witness ==
    /\ last.op = "requestSimulatorStatus"
    /\ last.ret = Returned(Bool(TRUE))
    /\ effects = <<WsSendEffect(client, Str(RequestSimulatorStatusText))>>

\* C8: the frame a request builder writes, given to the decoder, yields an
\* envelope with the type and the data of the request; ping has no data.
C8_RoundTrip ==
    (last.op \in BuilderOps /\ last.ret = Returned(Bool(TRUE))) =>
        /\ Len(effects) = 1
        /\ effects[1].e = "ws.send"
        /\ LET env == parseMessage(effects[1].frame) IN
            /\ Get(env, W("type")) = Get(last.arg, W("type"))
            /\ Get(env, W("data")) = Get(last.arg, W("data"))
            /\ last.op = "ping" => Get(env, W("data")) = Undefined
            /\ last.op = "requestAircraftData" =>
                    /\ Get(env, W("type")) = Str(W("request"))
                    /\ Get(env, W("data")) = O1("type", Str(W("AircraftData")))
            /\ last.op = "requestSimulatorStatus" =>
                    /\ Get(env, W("type")) = Str(W("Status"))
                    /\ Get(env, W("data")) = Obj(<<>>)

C8_Witness ==
    /\ last.op = "requestAircraftData"
    /\ last.ret = Returned(Bool(TRUE))
    /\ Len(effects) = 1
    /\ parseMessage(effects[1].frame) = RequestAircraftDataEnvelope

\* C9: a frame that is no JSON is decoded to {type: "unknown", data: the
\* text}; handling it throws nothing, invokes no callback, changes no state
\* and leaves the peer attached.
C9_MalformedFrame ==
    [][ (last'.op = "message" /\ last'.arg \in MalformedInbound) =>
            /\ last'.msg = UnknownEnvelope(Str(TextOf(last'.arg)))
            /\ effects' = <<>>
            /\ last'.ret = Normal
            /\ UNCHANGED <<client, simulatorStatus, sockets, wss, pendingCloses, uncaught>>
      ]_vars

C9_Witness ==
    /\ last.op = "message"
    /\ last.arg = Str(NotJson)
    /\ last.msg = UnknownEnvelope(Str(NotJson))
    /\ client = last.peer
    /\ sockets[client].readyState = "OPEN"

\* C10: the decoded envelope always has a string type; the text of a value
\* that is an object with a string type decodes to that object, and the
\* text of any other value v decodes to {type: "unknown", data: v}.
C10_Decoder ==
    last.op = "parseMessage" =>
        /\ Get(last.msg, W("type")).k = "string"
        /\ \A v \in CodecValues :
            last.arg \in Framings(Stringify(v).text) =>
                last.msg = IF v.k = "object" /\ Get(v, W("type")).k = "string"
                           THEN v ELSE UnknownEnvelope(v)
        /\ last.arg = Str(SpacedEnvelopeText) => last.msg = BareEnvelope("x")
        /\ last.arg = Str(RepeatedKeyText) => last.msg = UnknownEnvelope(O1("type", Num(5)))

C10_Witness ==
    /\ last.op = "parseMessage"
    /\ last.arg = Buf(<<"null">>)
    /\ last.msg = UnknownEnvelope(Null)

\* the type and the data of the envelope the last message step decoded
TypeOf(op) == Get(op.msg, W("type"))
DataOf(op) == Get(op.msg, W("data"))

CanonicalTypes == {Str(W(t)) : t \in {"AircraftData", "Status", "pong", "Error", "error"}}

\* C11: an inbound envelope whose type is none of AircraftData, Status,
\* pong, Error, error is ignored: handling it invokes no consumer callback,
\* the error callback included, throws nothing, and leaves the current
\* peer, the simulator status and the sockets as they were.
C11_UnrecognizedIgnored ==
    [][ (last'.op = "message" /\ TypeOf(last') \notin CanonicalTypes) =>
            /\ effects' = <<>>
            /\ last'.ret = Normal
            /\ UNCHANGED <<client, simulatorStatus, sockets, wss, pendingCloses, uncaught>>
      ]_vars

C11_Witness ==
    /\ last.op = "message"
    /\ last.msg = Envelope("custom", O1("simulator_connected", Bool(FALSE)))
    /\ effects = <<>>
    /\ simulatorStatus.simulator_connected = Bool(TRUE)
    /\ client = last.peer

\* spellings of the type names that differ from them in letter case only
CaseVariants == {Str(W(t)) : t \in {"status", "STATUS", "aircraftdata", "Pong", "PONG", "ERROR"}}

\* the dispatch took its error branch: the first callback it invoked is
\* the error callback with an error made from the envelope's data
ErrorBranchTaken ==
    /\ effects # <<>>
    /\ effects[1] = Call("onError", Err(JsString(ErrorMessage(DataOf(last)))))

\* C12: the dispatch compares the type by exact string equality: an
\* envelope whose type differs from a type name in letter case only
\* invokes no callback and changes no status, and the error branch is
\* taken exactly for the two spellings Error and error.
C12_ExactMatch ==
    [][ last'.op = "message" =>
            /\ TypeOf(last') \in CaseVariants =>
                    /\ effects' = <<>>
                    /\ last'.ret = Normal
                    /\ UNCHANGED <<client, simulatorStatus, sockets, uncaught>>
            /\ ErrorBranchTaken' <=> TypeOf(last') \in {Str(W("Error")), Str(W("error"))}
            /\ (effects' # <<>> /\ effects'[1].e = "onError") =>
                    TypeOf(last') \in {Str(W("Error")), Str(W("error"))}
      ]_vars

C12_Witness ==
    /\ last.op = "message"
    /\ last.msg = Envelope("ERROR", Str(W("bad")))
    /\ effects = <<>>
    /\ client = last.peer

\* the update names the field: data is an object with a member of that name
Carries(data, field) ==
    data.k = "object" /\ \E i \in 1..Len(data.props) : data.props[i][1] = W(field)

StatusStep(op) == op.op = "message" /\ TypeOf(op) = Str(W("Status"))

\* the operations of the manager that are no Status message
OtherOperation(op) == op.op # "consumerWrite" /\ ~StatusStep(op)

OthersKept(f) == \A g \in StatusFields \ {f} : simulatorStatus'[g] = simulatorStatus[g]

\* C14: a Status update with an empty data object leaves the simulator
\* status as it is; from any status, the update {simulator_connected: true}
\* sets that field and keeps the three others, and the update
\* {simulator_name: "MSFS"} sets the name and keeps the three others, so
\* that the second after the first yields both.
C14_IdempotentMerge ==
    [][ StatusStep(last') =>
            /\ DataOf(last') = Obj(<<>>) => UNCHANGED simulatorStatus
            /\ DataOf(last') = O1("simulator_connected", Bool(TRUE)) =>
                    /\ simulatorStatus'.simulator_connected = Bool(TRUE)
                    /\ OthersKept("simulator_connected")
            /\ DataOf(last') = O1("simulator_name", Str(W("MSFS"))) =>
                    /\ simulatorStatus'.simulator_name = Str(W("MSFS"))
                    /\ OthersKept("simulator_name")
      ]_vars

C14_Witness ==
    /\ StatusStep(last)
    /\ DataOf(last) = O1("simulator_name", Str(W("MSFS")))
    /\ simulatorStatus.simulator_name = Str(W("MSFS"))
    /\ simulatorStatus.simulator_connected = Bool(TRUE)
    /\ simulatorStatus.last_error = Num(5)

\* C15: the simulator-status callback is given the status after the merge,
\* equal member by member to what getSimulatorStatus() returns then, and
\* whatever the consumer writes to that object or to a result of
\* getSimulatorStatus() changes nothing of what getSimulatorStatus(),
\* isSimulatorConnected(), isSimulatorLoaded() and getSimulatorName() answer.
C15_AsStated ==
    [][ /\ (StatusStep(last') /\ effects' # <<>>) =>
                effects'[1] = Call("onSimulatorStatus", getSimulatorStatus')
        /\ last'.op = "consumerWrite" =>
                /\ getSimulatorStatus' = getSimulatorStatus
                /\ isSimulatorConnected' = isSimulatorConnected
                /\ isSimulatorLoaded' = isSimulatorLoaded
                /\ getSimulatorName' = getSimulatorName
      ]_vars

\* the events of a peer's life: its connection, the start and the end of
\* its closing, an error of its socket or of the listening transport
LifecycleEvents == {"connection", "closing", "close", "error", "serverError"}

\* C16: a peer's close, the supersession of a peer by a new one and a
\* transport error each leave the four fields of the simulator status
\* exactly as they were.
C16_StatusPersists ==
    [][ last'.op \in LifecycleEvents =>
            \A f \in StatusFields : simulatorStatus'[f] = simulatorStatus[f]
      ]_vars

C16_Witness ==
    /\ last.op = "close"
    /\ client = NoPeer
    /\ effects = <<AssignClient(NoPeer), Call("onDisconnect", Undefined)>>
    /\ simulatorStatus.simulator_connected = Bool(TRUE)

\* C17: close() resets the simulator status to its initial value, so that
\* isSimulatorConnected() is false after close() whatever Status updates
\* came before.
C17_AsStated ==
    last.op = "close()" =>
        /\ simulatorStatus = InitialStatus
        /\ ~isSimulatorConnected

\* the invocations of a callback among the effects
Invocations(name) == Indices(LAMBDA x : x.e = name)

\* the envelope has a data member whose value is not null
DataPresent(op) == DataOf(op) \notin {Undefined, Null}

DispatchStep(op, type) == op.op = "message" /\ TypeOf(op) = Str(W(type))

\* C18: for an AircraftData envelope with data present the aircraft-data
\* callback is invoked once, with data.Aircraft when data has an Aircraft
\* member and with data itself otherwise.
C18_AsStated ==
    (DispatchStep(last, "AircraftData") /\ DataPresent(last)) =>
        /\ Cardinality(Invocations("onAircraftData")) = 1
        /\ effects[1] =
                Call("onAircraftData",
                     IF Get(DataOf(last), W("Aircraft")) \notin {Undefined, Null}
                     THEN Get(DataOf(last), W("Aircraft")) ELSE DataOf(last))

\* the message the claim gives the error: data if it is a string, else
\* data.message if there is one, else "Unknown error"
ClaimedErrorMessage(data) ==
    IF data.k = "string" THEN data.s
    ELSE IF Get(data, W("message")) \notin {Undefined, Null}
    THEN JsString(Get(data, W("message")))
    ELSE <<"Unknown", Blank, "error">>

ErrorStep(op) == DispatchStep(op, "Error") \/ DispatchStep(op, "error")

\* C19 as stated: for an envelope of type Error or error, with or without
\* data, the error callback is invoked exactly once, with an error whose
\* message is the one above; the peer stays attached and the simulator
\* status is as it was.
C19_AsStated ==
    [][ ErrorStep(last') =>
            /\ effects' = <<Call("onError", Err(ClaimedErrorMessage(DataOf(last'))))>>
            /\ UNCHANGED <<client, simulatorStatus, sockets>>
      ]_vars

\* what the message handler's catch clause gives the error callback
CaughtErrors == {AsError(o.val) : o \in {c \in CallbackOutcomes : c.k = "throw"}}

\* C19, amended: the error callback is invoked with an error of that
\* message, once if this invocation returns; if it throws, the message
\* handler catches what it threw and invokes the error callback a second
\* time, with that exception.  The peer stays attached and the simulator
\* status is as it was.
C19_ErrorBranch ==
    [][ ErrorStep(last') =>
            /\ effects'[1] = Call("onError", Err(ClaimedErrorMessage(DataOf(last'))))
            /\ \/ /\ Len(effects') = 1
                  /\ last'.ret = Normal
               \/ /\ Len(effects') = 2
                  /\ effects'[2].e = "onError"
                  /\ effects'[2].arg \in CaughtErrors
                  /\ last'.ret = last'.cb
            /\ UNCHANGED <<client, simulatorStatus, sockets>>
      ]_vars

C19_Witness ==
    /\ last.op = "message"
    /\ last.msg = Envelope("Error", O1("code", Num(7)))
    /\ effects = <<Call("onError", Err(<<"Unknown", Blank, "error">>))>>
    /\ client = last.peer
    /\ sockets[client].readyState = "OPEN"

\* the callback of each of the three types that need data
CallbackOf(type) ==
    CASE type = Str(W("AircraftData")) -> "onAircraftData"
      [] type = Str(W("Status")) -> "onSimulatorStatus"
      [] type = Str(W("pong")) -> "onPong"

\* C20: for an envelope of type AircraftData, Status or pong the callback
\* of the type is invoked if and only if the envelope has data; when it has
\* none, nothing is invoked and no state changes.
C20_AsStated ==
    [][ (last'.op = "message"
            /\ TypeOf(last') \in {Str(W("AircraftData")), Str(W("Status")), Str(W("pong"))}) =>
            /\ (\E i \in 1..Len(effects') : effects'[i].e = CallbackOf(TypeOf(last')))
                    <=> DataPresent(last')
            /\ ~DataPresent(last') =>
                    /\ effects' = <<>>
                    /\ UNCHANGED <<client, simulatorStatus, sockets>>
      ]_vars

\* the last step dispatched an envelope to the aircraft-data, the
\* simulator-status or the pong callback
DataCallbacks == {"onAircraftData", "onSimulatorStatus", "onPong"}
DataCallbackStep(op, eff) == op.op = "message" /\ eff # <<>> /\ eff[1].e \in DataCallbacks

\* C21 as stated: an exception raised by the aircraft-data, the
\* simulator-status or the pong callback is not caught: the message
\* handler ends the way the callback ended and the error callback is not
\* invoked.
C21_AsStated ==
    [][ DataCallbackStep(last', effects') =>
            /\ Len(effects') = 1
            /\ last'.ret = last'.cb
      ]_vars

\* C21, amended: an exception raised by one of the three callbacks is
\* caught by the message handler, which invokes the error callback once
\* with it (wrapped in an Error if it is none); it goes no further unless
\* the error callback throws, and then it is the error callback's
\* exception that leaves the handler.
C21_CallbackCaught ==
    [][ DataCallbackStep(last', effects') =>
            \/ /\ Len(effects') = 1
               /\ last'.ret = Normal
               /\ ~uncaught'
            \/ /\ Len(effects') = 2
               /\ effects'[2].e = "onError"
               /\ effects'[2].arg \in {Err(W("boom")), Err(W("oops"))}
               /\ last'.ret = last'.cb
               /\ uncaught' <=> last'.cb.k = "throw"
      ]_vars

C21_Witness ==
    /\ last.op = "message"
    /\ Len(effects) = 2
    /\ effects[1].e = "onAircraftData"
    /\ effects[2] = Call("onError", Err(W("oops")))
    /\ last.ret = Normal
    /\ ~uncaught

\* C22: an error event of a peer's socket or of the listening transport
\* invokes the error callback once, with the error of the event, and does
\* nothing else: the current peer stays attached, no close is started, no
\* disconnect notification fires and the simulator status is as it was.
C22_TransportError ==
    [][ last'.op \in {"error", "serverError"} =>
            /\ effects' = <<Call("onError", last'.arg)>>
            /\ UNCHANGED <<client, simulatorStatus, sockets, wss, pendingCloses>>
      ]_vars

C22_Witness ==
    /\ last.op = "error"
    /\ last.arg = Err(W("ECONNRESET"))
    /\ client = last.peer
    /\ sockets[client] = [readyState |-> "OPEN", closeCall |-> NoCall]
    /\ effects = <<Call("onError", Err(W("ECONNRESET")))>>
    /\ simulatorStatus.simulator_connected = Bool(TRUE)

ServerClosingClose == [code |-> 1000, reason |-> "Server closing"]

\* the places of an effect among the effects of the last operation
Places(x) == {i \in 1..Len(effects) : effects[i] = x}

\* C23: close() starts the close of the attached peer, with code 1000 and
\* reason "Server closing", before it asks the listening transport to
\* close; it asks the listening transport to close, once, also when no
\* peer is attached; it returns its promise and throws nothing, and a
\* promise of close() is resolved only in the step in which the listening
\* transport reports that it has shut down, never in close() itself.
C23_ShutdownOrder ==
    /\ last.op = "close()" =>
        /\ Cardinality(Places(WssCloseEffect)) = 1
        /\ Places(ResolveEffect) = {}
        /\ pendingCloses > 0
        /\ last.ret = Normal
        /\ wss \in {"CLOSING", "CLOSED"}
        /\ client = NoPeer
        /\ last.peer # NoPeer =>
            /\ Cardinality(Places(WsCloseEffect(last.peer, 1000, "Server closing"))) = 1
            /\ \A i \in Places(WsCloseEffect(last.peer, 1000, "Server closing")) :
                    \A j \in Places(WssCloseEffect) : i < j
            /\ sockets[last.peer].closeCall = ServerClosingClose
            /\ sockets[last.peer].readyState # "OPEN"
        /\ last.peer = NoPeer => effects = <<WssCloseEffect>>
    /\ Places(ResolveEffect) # {} =>
        /\ last.op = "wssClosed"
        /\ wss = "CLOSED"
        /\ pendingCloses = 0

C23_Witness ==
    /\ last.op = "close()"
    /\ last.peer = 2
    /\ effects = <<WsCloseEffect(2, 1000, "Server closing"), AssignClient(NoPeer), WssCloseEffect>>
    /\ sockets[2].readyState = "CLOSING"
    /\ wss = "CLOSING"

\* the frames the message handler was given on p's connection, in order
Dispatched(p) == [i \in 1..Len(channel[p].log) |-> channel[p].log[i].frame]

\* the simulator status the i-th dispatch on p's connection started from
StatusBefore(p, i) == IF i = 1 THEN InitialStatus ELSE channel[p].log[i - 1].status

\* C24: on a connection the frames are dispatched in the order the
\* transport delivers them, which is the order they were sent in: the
\* frames dispatched so far, followed by those the transport still holds,
\* are the frames sent, none left out, none held back by the manager, none
\* out of place.  Each dispatch is complete before the next begins: it
\* starts from the status the previous one left, and its merge and its
\* callback are those of its own frame.
C24_FifoDispatch ==
    \A p \in Peers :
        /\ Dispatched(p) \o channel[p].inflight = channel[p].sent
        /\ \A i \in 1..Len(channel[p].log) :
            LET entry == channel[p].log[i]
                h == handleMessage(parseMessage(entry.frame), StatusBefore(p, i), Normal)
            IN  /\ entry.status = h.status
                /\ SubSeq(entry.effects, 1, Len(h.calls)) = h.calls
                /\ Len(entry.effects) \in {Len(h.calls), Len(h.calls) + 1}
        /\ channel[p].log # <<>> =>
                simulatorStatus = channel[p].log[Len(channel[p].log)].status

C24_Witness ==
    /\ Len(channel[1].log) = 2
    /\ channel[1].log[1].frame = FrameOf(Envelope("Status", O1("simulator_connected", Bool(TRUE))))
    /\ channel[1].log[2].frame = FrameOf(Envelope("Status", O1("simulator_connected", Bool(FALSE))))
    /\ channel[1].inflight = <<FrameOf(AltitudeNested)>>
    /\ simulatorStatus.simulator_connected = Bool(FALSE)
    /\ last.op = "message"

(***************************************************************************)
(* Status-code properties                                                  *)
(***************************************************************************)
\* A decimal integer numeral: optional leading blanks, an optional sign and
\* one or more digits, with nothing after them
IsIntegerNumeral(s) ==
    LET i == SkipWs(s, 1)
        d == IF i <= Len(s) /\ s[i] \in {"+", "-"} THEN i + 1 ELSE i
    IN  /\ d <= Len(s)
        /\ \A j \in d..Len(s) : IsDigit(s[j])

\* The integer a numeral denotes
NumeralValue(s) ==
    LET digits == SelectSeq(s, IsDigit)
        n == DigitsValue(digits, 1, Len(digits) + 1, 0)
    IN  IF \E j \in 1..Len(s) : s[j] = "-" THEN -n ELSE n

Bands ==
    { [from |-> 200, to |-> 300, category |-> SUCCESS],
      [from |-> 400, to |-> 500, category |-> CLIENT_ERROR],
      [from |-> 500, to |-> 600, category |-> SERVER_ERROR],
      [from |-> 600, to |-> 700, category |-> SIMULATOR],
      [from |-> 900, to |-> 1000, category |-> CUSTOM] }

BandsOf(n) == {b \in Bands : b.from <= n /\ n < b.to}

BandCategory(n) == IF BandsOf(n) = {} THEN Null ELSE (CHOOSE b \in BandsOf(n) : TRUE).category

\* C25: for an integer numeral getStatusCodeCategory returns the category of
\* the one band [200,300), [400,500), [500,600), [600,700), [900,1000) that
\* holds its value and none outside the bands; no value lies in two bands,
\* and the canonical numeral of the same value gets the same category,
\* whether or not the code is a named constant.
C25_NumericBands ==
    (last.op = "getStatusCodeCategory" /\ IsIntegerNumeral(last.arg.s)) =>
        LET n == NumeralValue(last.arg.s) IN
        /\ Cardinality(BandsOf(n)) <= 1
        /\ last.ret = Returned(BandCategory(n))
        /\ getStatusCodeCategory(Str(NumText(n))) = last.ret.val

C25_Witness ==
    /\ last.op = "getStatusCodeCategory"
    /\ last.arg = Str(<<"0">> \o NumText(650))
    /\ ~isValidStatusCode(last.arg)
    /\ last.ret = Returned(SIMULATOR)

CategoryFunctions ==
    {"getStatusCodeCategory", "isSuccessStatusCode", "isErrorStatusCode", "isSimulatorStatusCode"}

\* C26: for a code string that is not an integer numeral, even one that
\* begins with digits, getStatusCodeCategory returns none and
\* isSuccessStatusCode, isErrorStatusCode and isSimulatorStatusCode return
\* false.
C26_AsStated ==
    (last.op \in CategoryFunctions /\ ~IsIntegerNumeral(last.arg.s)) =>
        last.ret = Returned(IF last.op = "getStatusCodeCategory" THEN Null ELSE Bool(FALSE))

\* C27: every named StatusCode value is valid and has the category of its
\* band; isValidStatusCode returns true only for a string equal to an
\* enumerated value, and then the code has a category; some code with a
\* category ("650") is not valid.
C27_ValidNarrower ==
    /\ \A i \in 1..Len(StatusCode) :
            /\ isValidStatusCode(StatusCode[i])
            /\ getStatusCodeCategory(StatusCode[i]) # Null
            /\ getStatusCodeCategory(StatusCode[i]) = BandCategory(StatusCodeNumbers[i])
    /\ last.op = "isValidStatusCode" =>
            /\ last.ret = Returned(Bool(\E i \in 1..Len(StatusCode) : StatusCode[i].s = last.arg.s))
            /\ last.ret.val.b => getStatusCodeCategory(last.arg) # Null
            /\ last.arg = Str(NumText(650)) => last.ret = Returned(Bool(FALSE))

C27_Witness ==
    /\ last.op = "isValidStatusCode"
    /\ last.arg = Str(NumText(650))
    /\ last.ret = Returned(Bool(FALSE))
    /\ getStatusCodeCategory(last.arg) = SIMULATOR

\* C28: getStatusCodeDescription returns a string for every code: the
\* registered text of a known code ("Simulator disconnected" for "601") and
\* "Unknown status code: " followed by the code for any other string.
C28_DescriptionTotal ==
    last.op = "getStatusCodeDescription" =>
        /\ last.ret.k = "return"
        /\ last.ret.val.k = "string"
        /\ isValidStatusCode(last.arg) =>
                /\ \E i \in 1..Len(StatusCodeDescription.props) :
                        StatusCodeDescription.props[i] = <<last.arg.s, last.ret.val>>
                /\ last.arg = Str(NumText(601)) =>
                        last.ret.val = Str(<<"Simulator", Blank, "disconnected">>)
        /\ ~isValidStatusCode(last.arg) =>
                last.ret.val = Str(<<"Unknown", Blank, "status", Blank, "code", ":", Blank>> \o last.arg.s)

C28_Witness ==
    /\ last.op = "getStatusCodeDescription"
    /\ last.arg = Str(NumText(601))
    /\ last.ret = Returned(Str(<<"Simulator", Blank, "disconnected">>))

C28_FallbackWitness ==
    /\ last.op = "getStatusCodeDescription"
    /\ last.arg = Str(NumText(650))
    /\ last.ret = Returned(Str(<<"Unknown", Blank, "status", Blank, "code", ":", Blank, "6", "5", "0">>))

(***************************************************************************)
(* Status queries and status messages                                      *)
(***************************************************************************)
StoredConnected == simulatorStatus.simulator_connected

\* C29: isSimulatorConnected() answers false while the status is the initial
\* one and, after any events, true exactly when the stored
\* simulator_connected is the boolean true; an absent value, the string
\* "yes" or the number 1 gives false.
C29_StrictConnected ==
    last.op = "isSimulatorConnected" =>
        /\ last.ret = Returned(Bool(StoredConnected.k = "boolean" /\ StoredConnected.b))
        /\ simulatorStatus = InitialStatus => last.ret = Returned(Bool(FALSE))
        /\ StoredConnected \in {Undefined, Str(W("yes")), Num(1)} => last.ret = Returned(Bool(FALSE))

C29_Witness ==
    /\ last.op = "isSimulatorConnected"
    /\ StoredConnected = Str(W("yes"))
    /\ last.ret = Returned(Bool(FALSE))

\* C30: for an inbound Status envelope whose data carries code and message,
\* the onStatusMessage callback is invoked with a StatusMessage holding that
\* code and that message, and the onSimulatorStatus callback is invoked too.
C30_AsStated ==
    (StatusStep(last) /\ Carries(DataOf(last), "code") /\ Carries(DataOf(last), "message")) =>
        /\ \E i \in 1..Len(effects) :
                /\ effects[i].e = "onStatusMessage"
                /\ Get(effects[i].arg, W("code")) = Get(DataOf(last), W("code"))
                /\ Get(effects[i].arg, W("message")) = Get(DataOf(last), W("message"))
        /\ \E i \in 1..Len(effects) : effects[i].e = "onSimulatorStatus"

(***************************************************************************)
(* Session properties                                                      *)
(***************************************************************************)
CodeOf(op) == Get(DataOf(op), W("code"))

\* C31: after a Status envelope whose data carries code "600" is received,
\* isSimulatorConnected() is true; after one carrying code "601" it is false.
C31_AsStated ==
    /\ (StatusStep(last) /\ CodeOf(last) = Str(W("600"))) => isSimulatorConnected
    /\ (StatusStep(last) /\ CodeOf(last) = Str(W("601"))) => ~isSimulatorConnected

\* the update gives code and message and none of the four status fields
CodeMessageOnly(data) ==
    /\ Carries(data, "code")
    /\ Carries(data, "message")
    /\ \A f \in StatusFields : ~Carries(data, f)

\* the simulator-status callback is invoked once, with the snapshot of the
\* status after the step, and the error callback only with what that
\* invocation threw
AcceptedStatus ==
    /\ effects' # <<>>
    /\ effects'[1] = Call("onSimulatorStatus", Snapshot(simulatorStatus'))
    /\ \A i \in 2..Len(effects') :
            /\ i = 2
            /\ effects'[i].e = "onError"
            /\ effects'[i].arg \in CaughtErrors

Evicted(p) ==
    /\ p # client
    /\ sockets[p].readyState = "CLOSING"
    /\ sockets[p].closeCall # NoCall

ConsumerCallbacks == {"onAircraftData", "onSimulatorStatus", "onPong", "onError"}

\* C33: a frame delivered from a peer that was superseded or detached by
\* close() and whose socket is still closing leaves the simulator status as
\* it is and invokes no aircraft-data, simulator-status, pong or error
\* callback.
C33_AsStated ==
    [][ (last'.op = "message" /\ Evicted(last'.peer)) =>
            /\ UNCHANGED simulatorStatus
            /\ \A i \in 1..Len(effects') : effects'[i].e \notin ConsumerCallbacks
      ]_vars

Notifications(name) == {i \in 1..Len(notifications) : notifications[i].e = name}

\* C34 as stated: connection and disconnect notifications alternate,
\* starting with a connection notification, so that the connection
\* notifications are as many as the disconnect notifications or one more.
C34_AsStated ==
    /\ \A i \in 1..Len(notifications) :
            notifications[i].e = IF i % 2 = 1 THEN "onConnection" ELSE "onDisconnect"
    /\ Cardinality(Notifications("onConnection")) - Cardinality(Notifications("onDisconnect"))
            \in {0, 1}

\* C34, amended: a disconnect notification directly follows the connection
\* notification of the same peer, so the notifications start with a
\* connection notification, no two disconnect notifications follow each
\* other, and there are never more disconnect than connection
\* notifications.
C34_DisconnectFollowsConnection ==
    /\ \A i \in Notifications("onDisconnect") :
            /\ i > 1
            /\ notifications[i - 1] = Notified("onConnection", notifications[i].peer)
    /\ Cardinality(Notifications("onDisconnect")) <= Cardinality(Notifications("onConnection"))

C34_Witness ==
    notifications =
        <<Notified("onConnection", 1), Notified("onConnection", 2), Notified("onDisconnect", 2)>>

\* C35 as stated: whenever isSimulatorConnected() is true a peer is attached
\* and isClientConnected() is true.
C35_AsStated == isSimulatorConnected => (client # NoPeer /\ isClientConnected)

\* C35, amended: isSimulatorConnected() becomes true only by a Status
\* envelope that gives simulator_connected as true, so it is false until a
\* peer has been attached; it stays true when that peer is detached.
C35_ConnectedByStatus ==
    [][ /\ (isSimulatorConnected' /\ ~isSimulatorConnected) =>
                /\ StatusStep(last')
                /\ Get(DataOf(last'), W("simulator_connected")) = Bool(TRUE)
        /\ isSimulatorConnected' => Notifications("onConnection")' # {}
        /\ (isSimulatorConnected /\ last'.op \in LifecycleEvents) => isSimulatorConnected'
      ]_vars

C35_Witness ==
    /\ isSimulatorConnected
    /\ ~isClientConnected
    /\ client = NoPeer
    /\ last.op = "close"
    /\ last.peer = 1

DisconnectNotified(p) ==
    \E i \in 1..Len(notifications) : notifications[i] = Notified("onDisconnect", p)

\* C36: when close() is called while peer p is attached, the disconnect
\* notification for p fires eventually, unless an exception escapes a
\* listener first.
C36_AsStated ==
    \A p \in Peers :
        (last.op = "close()" /\ last.peer = p) ~> (DisconnectNotified(p) \/ uncaught)

SendOps == {"send"} \cup BuilderOps

FramesWritten == {i \in 1..Len(effects') : effects'[i].e = "ws.send"}

\* C37: when send or a request builder returns true, one frame was handed
\* to the socket of the current peer, which was open; no step writes a
\* frame to another socket; send returns false when isClientConnected() is
\* false.
C37_CurrentPeerOnly ==
    [][ /\ \A i \in FramesWritten :
                /\ last'.op \in SendOps
                /\ effects'[i].peer = client
                /\ client # NoPeer
                /\ sockets[client].readyState = "OPEN"
        /\ last'.op \in SendOps =>
                /\ last'.ret = Returned(Bool(TRUE)) => Cardinality(FramesWritten) = 1
                /\ ~isClientConnected => last'.ret = Returned(Bool(FALSE))
                /\ UNCHANGED client
      ]_vars

C37_Witness ==
    /\ last.op = "ping"
    /\ last.ret = Returned(Bool(TRUE))
    /\ client = 2
    /\ sockets[1].readyState = "CLOSING"
    /\ effects = <<WsSendEffect(2, Str(PingText))>>

QueryOps ==
    {"getSimulatorStatus", "isSimulatorConnected", "isSimulatorLoaded", "getSimulatorName",
     "isClientConnected"}

\* C38: the dispatch of an AircraftData, pong, Error, error or unrecognized
\* envelope, send, a request builder and a query method each leave the
\* simulator status and the current peer as they are.
C38_OnlyStatusMutates ==
    [][ (\/ last'.op = "message" /\ TypeOf(last') # Str(W("Status"))
         \/ last'.op \in SendOps
         \/ last'.op \in QueryOps) =>
            UNCHANGED <<simulatorStatus, client>>
      ]_vars

C38_Witness ==
    /\ last.op = "message"
    /\ TypeOf(last) = Str(W("Error"))
    /\ effects = <<Call("onError", Err(W("bad")))>>
    /\ simulatorStatus.simulator_connected = Bool(TRUE)
    /\ client = 1

\* C39: a field a Status update gives with a falsy value other than null
\* takes that value: simulator_connected false makes isSimulatorConnected()
\* false, last_error 0 and simulator_name "" replace what was stored; a
\* field given as null keeps its value.
C39_FalsyOverwrites ==
    [][ StatusStep(last') =>
            /\ DataOf(last') = O1("simulator_connected", Bool(FALSE)) =>
                    /\ simulatorStatus'.simulator_connected = Bool(FALSE)
                    /\ ~isSimulatorConnected'
            /\ DataOf(last') = O1("last_error", Num(0)) => simulatorStatus'.last_error = Num(0)
            /\ DataOf(last') = O1("simulator_name", Str(<<>>)) =>
                    simulatorStatus'.simulator_name = Str(<<>>)
            /\ \A f \in StatusFields :
                    LET given == Get(DataOf(last'), W(f)) IN
                    /\ (given # Undefined /\ given # Null /\ Falsy(given)) =>
                            simulatorStatus'[f] = given
                    /\ given = Null => simulatorStatus'[f] = simulatorStatus[f]
      ]_vars

C39_Witness ==
    /\ StatusStep(last)
    /\ DataOf(last) = O1("simulator_name", Str(<<>>))
    /\ simulatorStatus.simulator_name = Str(<<>>)
    /\ simulatorStatus.last_error = Num(5)
    /\ simulatorStatus.simulator_connected = Bool(TRUE)

\* close() has been called
CloseCalled == wss \in {"CLOSING", "CLOSED"}

\* C40: once close() has been called the manager holds no peer: a connect
\* event delivered afterwards is not adopted and fires no connection
\* notification, isClientConnected() is false and send and the request
\* builders return false.
C40_AsStated ==
    [][ CloseCalled =>
            /\ client' = NoPeer
            /\ ~isClientConnected'
            /\ UNCHANGED Notifications("onConnection")
            /\ last'.op \in SendOps => last'.ret = Returned(Bool(FALSE))
      ]_vars
====
